---- MODULE Spec2Model ----
(***************************************************************************)
(* A model of png.h: the PNG encoder (store-mode DEFLATE) and the decoder  *)
(* (chunk framer, zlib/DEFLATE inflate, row unfiltering).                  *)
(*                                                                         *)
(* Buffers are sequences of bytes (0..255).  C index i of a buffer is      *)
(* element i+1 of the sequence.  `int` is 32-bit two's complement,         *)
(* `size_t` is 64-bit unsigned (an LP64 build).                            *)
(***************************************************************************)
EXTENDS Integers, Sequences, FiniteSets, TLC

(***************************************************************************)
(* Machine arithmetic.  Every number the model computes stays inside the   *)
(* 32-bit range: an `int` is its own value, a uint32_t is a word           *)
(* <<hi, lo>> of two 16-bit halves (value hi * 65536 + lo).                *)
(***************************************************************************)
INT_MAX == 2147483647

INT_MIN == (-INT_MAX) - 1

\* A pointer is NULL or <<object>>: p[1] is the object p points to.
NULL == << >>

\* a ^ b for 16-bit a, b: bit i of the result is the sum of the two bits
\* i modulo 2.
BitXor(a, b) ==
    ((a + b) % 2)
    + (2 * (((a \div 2) + (b \div 2)) % 2))
    + (4 * (((a \div 4) + (b \div 4)) % 2))
    + (8 * (((a \div 8) + (b \div 8)) % 2))
    + (16 * (((a \div 16) + (b \div 16)) % 2))
    + (32 * (((a \div 32) + (b \div 32)) % 2))
    + (64 * (((a \div 64) + (b \div 64)) % 2))
    + (128 * (((a \div 128) + (b \div 128)) % 2))
    + (256 * (((a \div 256) + (b \div 256)) % 2))
    + (512 * (((a \div 512) + (b \div 512)) % 2))
    + (1024 * (((a \div 1024) + (b \div 1024)) % 2))
    + (2048 * (((a \div 2048) + (b \div 2048)) % 2))
    + (4096 * (((a \div 4096) + (b \div 4096)) % 2))
    + (8192 * (((a \div 8192) + (b \div 8192)) % 2))
    + (16384 * (((a \div 16384) + (b \div 16384)) % 2))
    + (32768 * (((a \div 32768) + (b \div 32768)) % 2))

\* u ^ v on uint32_t.
WXor(u, v) == <<BitXor(u[1], v[1]), BitXor(u[2], v[2])>>

\* u >> 1 and u >> 8 on uint32_t.
WShr1(u) == <<u[1] \div 2, ((u[1] % 2) * 32768) + (u[2] \div 2)>>

WShr8(u) == <<u[1] \div 256, ((u[1] % 256) * 256) + (u[2] \div 256)>>

\* The four bytes of a uint32_t, most significant first.
WBytes(u) == <<u[1] \div 256, u[1] % 256, u[2] \div 256, u[2] % 256>>

\* (int)u of a uint32_t u.
WToInt(u) == ((IF u[1] >= 32768 THEN u[1] - 65536 ELSE u[1]) * 65536) + u[2]

\* u > n for a uint32_t u and a number n below 2^31.
WGreater(u, n) == IF u[1] >= 32768 THEN TRUE ELSE ((u[1] * 65536) + u[2]) > n

\* Whether u + v, u * v leave the range of `int`.
AddOverflows(u, v) ==
    IF v >= 0 THEN u > INT_MAX - v ELSE u < INT_MIN - v

Abs31(u) == IF u = INT_MIN THEN INT_MAX ELSE IF u < 0 THEN -u ELSE u

MulOverflows(u, v) ==
    IF u = 0 \/ v = 0 \/ u = 1 \/ v = 1 THEN FALSE
    ELSE IF u = INT_MIN \/ v = INT_MIN THEN TRUE
    ELSE IF (u < 0) = (v < 0)
         THEN Abs31(u) > INT_MAX \div Abs31(v)
         ELSE \* the product is negative: |u| * |v| <= 2^31
              /\ Abs31(u) > INT_MAX \div Abs31(v)
              /\ ~(Abs31(v) * (INT_MAX \div Abs31(v)) = INT_MAX - (Abs31(v) - 1)
                   /\ Abs31(u) = (INT_MAX \div Abs31(v)) + 1)

\* u + v reduced into the range of `int` (two's complement).
AddWrap(u, v) ==
    IF ~AddOverflows(u, v) THEN u + v
    ELSE IF v >= 0 THEN ((u + INT_MIN) + v) + INT_MIN
                   ELSE ((u - INT_MIN) + v) - INT_MIN

\* The bit pattern of an int as a uint32_t.
IntToW(u) ==
    IF u >= 0 THEN <<u \div 65536, u % 65536>>
    ELSE <<(u \div 65536) + 65536, u % 65536>>

\* u * v for 16-bit u, v as <<high half, low half>>, by bytes of v.
Mul16(u, v) ==
    LET A == u * (v \div 256)
        B == u * (v % 256)
        l == ((A % 256) * 256) + (B % 65536)
    IN  <<((A \div 256) + (B \div 65536) + (l \div 65536)) % 65536, l % 65536>>

\* The low 32 bits of u * v on uint32_t.
WMul(u, v) ==
    LET low == Mul16(u[2], v[2])
    IN  <<(low[1] + Mul16(u[1], v[2])[2] + Mul16(u[2], v[1])[2]) % 65536, low[2]>>

\* u * v reduced into the range of `int` (two's complement).
MulWrap(u, v) == WToInt(WMul(IntToW(u), IntToW(v)))

(***************************************************************************)
(* CRC-32 and Adler-32                                                     *)
(***************************************************************************)
\* One turn of the k loop of png_make_crc_table.
crc_table_turn(c) ==
    IF c[2] % 2 = 1 THEN WXor(<<60856, 33568>>, WShr1(c)) ELSE WShr1(c)

\* png_crc_table[n]: eight turns from c = n.
crc_table_entry(n) ==
    crc_table_turn(crc_table_turn(crc_table_turn(crc_table_turn(
    crc_table_turn(crc_table_turn(crc_table_turn(crc_table_turn(<<0, n>>))))))))

\* The table png_make_crc_table fills, as a sequence indexed from 0.
png_crc_table == [n \in 0..255 |-> crc_table_entry(n)] @@ << >>

\* The loop of png_update_crc over buf[lo..hi], bytes taken in index order;
\* crc is evaluated before the range is entered.
RECURSIVE png_update_crc_range(_, _, _, _)
png_update_crc_range(crc, buf, lo, hi) ==
    IF crc = << >> \/ lo > hi THEN crc
    ELSE IF lo = hi
         THEN WXor(png_crc_table[BitXor(crc[2] % 256, buf[lo])], WShr8(crc))
         ELSE LET mid == (lo + hi) \div 2
              IN  png_update_crc_range(
                      png_update_crc_range(crc, buf, lo, mid),
                      buf, mid + 1, hi)

png_update_crc(crc, buf) == png_update_crc_range(crc, buf, 1, Len(buf))

png_crc(buf) == WXor(png_update_crc(<<65535, 65535>>, buf), <<65535, 65535>>)

\* The loop of png_adler32 over data[lo..hi]; ab = <<a, b>>, evaluated before
\* the range is entered.
RECURSIVE png_adler32_range(_, _, _, _)
png_adler32_range(ab, data, lo, hi) ==
    IF ab = << >> \/ lo > hi THEN ab
    ELSE IF lo = hi
         THEN LET a == (ab[1] + data[lo]) % 65521
              IN  <<a, (ab[2] + a) % 65521>>
         ELSE LET mid == (lo + hi) \div 2
              IN  png_adler32_range(png_adler32_range(ab, data, lo, mid),
                                    data, mid + 1, hi)

\* png_adler32 with the two sums exchanged: (a << 16) | b.
adler32_swapped(data) ==
    LET ab == png_adler32_range(<<1, 0>>, data, 1, Len(data))
    IN  <<ab[1], ab[2]>>

\* (b << 16) | a as a uint32_t.
png_adler32(data) ==
    LET ab == png_adler32_range(<<1, 0>>, data, 1, Len(data))
    IN  <<ab[2], ab[1]>>

(***************************************************************************)
(* Encoder                                                                 *)
(***************************************************************************)
\* (x >> 24) & 0xff, ..., x & 0xff of an int or a small size_t.
BE32(x) == << (x \div 16777216) % 256, (x \div 65536) % 256,
              (x \div 256) % 256, x % 256 >>

T_IHDR == <<73, 72, 68, 82>>
T_IDAT == <<73, 68, 65, 84>>
T_IEND == <<73, 69, 78, 68>>
T_tEXt == <<116, 69, 88, 116>>

PNG_SIGNATURE == <<137, 80, 78, 71, 13, 10, 26, 10>>

max_block == 65535

\* deflate_store_blocks with NLEN written as LEN instead of its complement.
RECURSIVE blocks_plain_nlen(_, _, _)
blocks_plain_nlen(data, from, remaining) ==
    IF remaining = 0 THEN << >>
    ELSE LET block_len == IF remaining > max_block THEN max_block ELSE remaining
             is_final  == IF remaining <= max_block THEN 1 ELSE 0
         IN  << is_final, block_len % 256, (block_len \div 256) % 256,
                block_len % 256, (block_len \div 256) % 256 >>
             \o SubSeq(data, from, from + block_len - 1)
             \o blocks_plain_nlen(data, from + block_len, remaining - block_len)

\* The stored blocks of png_deflate_store for data[from..], final one last.
RECURSIVE deflate_store_blocks(_, _, _)
deflate_store_blocks(data, from, remaining) ==
    IF remaining = 0 THEN << >>
    ELSE LET block_len == IF remaining > max_block THEN max_block ELSE remaining
             is_final  == IF remaining <= max_block THEN 1 ELSE 0
             nlen      == 65535 - block_len
         IN  << is_final, block_len % 256, (block_len \div 256) % 256,
                nlen % 256, (nlen \div 256) % 256 >>
             \o SubSeq(data, from, from + block_len - 1)
             \o deflate_store_blocks(data, from + block_len, remaining - block_len)

png_deflate_store(data) ==
    <<120, 1>> \o deflate_store_blocks(data, 1, Len(data))
               \o WBytes(png_adler32(data))

\* png_write_chunk with the CRC taken over the data only.
write_chunk_data_crc(type, data) ==
    BE32(Len(data)) \o type \o data \o WBytes(png_crc(data))

\* The bytes png_write_chunk writes to the file.
png_write_chunk(type, data) ==
    BE32(Len(data)) \o type \o data \o WBytes(png_crc(type \o data))

png_write_text_chunk(keyword, text) ==
    png_write_chunk(T_tEXt, keyword \o <<0>> \o text)

\* png_color_type with the types of 2 and 3 channels exchanged.
color_type_exchanged(channels) ==
    IF channels = 4 THEN 6
    ELSE IF channels = 3 THEN 4
    ELSE IF channels = 2 THEN 2 ELSE 0

png_color_type(channels) ==
    IF channels = 4 THEN 6
    ELSE IF channels = 3 THEN 2
    ELSE IF channels = 2 THEN 4 ELSE 0

\* The raw scanlines: every row prefixed with filter byte 0.
png_raw_rows(img) ==
    LET rb == img.width * img.channels
    IN  [k \in 1..(img.height * (1 + rb)) |->
            LET y == (k - 1) \div (1 + rb)
                x == (k - 1) % (1 + rb)
            IN  IF x = 0 THEN 0 ELSE img.data[y * rb + x]]

\* The bytes of the file png_save_internal writes for the image img;
\* keyword and text are pointers (NULL: no tEXt).
png_save_internal(img, keyword, text) ==
    PNG_SIGNATURE
    \o png_write_chunk(T_IHDR,
           BE32(img.width) \o BE32(img.height)
           \o <<8, png_color_type(img.channels), 0, 0, 0>>)
    \o (IF keyword # NULL /\ text # NULL
        THEN png_write_text_chunk(keyword[1], text[1]) ELSE << >>)
    \o png_write_chunk(T_IDAT, png_deflate_store(png_raw_rows(img)))
    \o png_write_chunk(T_IEND, << >>)

(***************************************************************************)
(* Bit reader.  A png_bitstream is [bytepos, bitbuf, bitcount]; the bytes  *)
(* it reads (bs->data, bs->len) are passed along as the sequence d.        *)
(***************************************************************************)
RECURSIVE png_bitstream_fill(_, _, _)
png_bitstream_fill(bs, d, n) ==
    IF bs.bitcount < n /\ bs.bytepos < Len(d)
    THEN png_bitstream_fill(
             [bytepos  |-> bs.bytepos + 1,
              \* the new byte lands above the bitcount bits held: | is +
              bitbuf   |-> bs.bitbuf + (d[bs.bytepos + 1] * (2 ^ bs.bitcount)),
              bitcount |-> bs.bitcount + 8], d, n)
    ELSE bs

\* png_bitstream_get without the shift that drops the bits it returns.
bitstream_peek(bs, d, n) ==
    IF n = 0 THEN [ok |-> TRUE, v |-> 0, bs |-> bs]
    ELSE LET take(f) ==
                 IF f.bitcount < n
                 THEN [ok |-> FALSE, v |-> 0, bs |-> f]
                 ELSE [ok |-> TRUE, v |-> f.bitbuf % (2 ^ n), bs |-> f]
         IN  take(png_bitstream_fill(bs, d, n))

\* [ok, v, bs]: the return value, *out and the stream afterwards.
png_bitstream_get(bs, d, n) ==
    IF n = 0 THEN [ok |-> TRUE, v |-> 0, bs |-> bs]
    ELSE LET take(f) ==
                 IF f.bitcount < n
                 THEN [ok |-> FALSE, v |-> 0, bs |-> f]
                 ELSE [ok |-> TRUE,
                       v  |-> f.bitbuf % (2 ^ n),
                       bs |-> [bytepos  |-> f.bytepos,
                               bitbuf   |-> f.bitbuf \div (2 ^ n),
                               bitcount |-> f.bitcount - n]]
         IN  take(png_bitstream_fill(bs, d, n))

png_bitstream_align(bs, d) ==
    LET skip == bs.bitcount % 8
    IN  IF skip = 0 THEN [ok |-> TRUE, v |-> 0, bs |-> bs]
        ELSE png_bitstream_get(bs, d, skip)

\* The byte-by-byte branch of png_bitstream_read_bytes; acc = bytes stored.
RECURSIVE read_bytes_loop(_, _, _, _)
read_bytes_loop(bs, d, len, acc) ==
    IF Len(acc) = len THEN [ok |-> TRUE, bytes |-> acc, bs |-> bs]
    ELSE LET store(g) ==
                 IF ~g.ok THEN [ok |-> FALSE, bytes |-> acc, bs |-> g.bs]
                 ELSE read_bytes_loop(g.bs, d, len, Append(acc, g.v))
         IN  store(png_bitstream_get(bs, d, 8))

\* [ok, bytes, bs]: bytes are those stored through out.
png_bitstream_read_bytes(bs, d, len) ==
    IF bs.bitcount = 0
    THEN IF bs.bytepos + len > Len(d)
         THEN [ok |-> FALSE, bytes |-> << >>, bs |-> bs]
         ELSE [ok |-> TRUE,
               bytes |-> SubSeq(d, bs.bytepos + 1, bs.bytepos + len),
               bs |-> [bs EXCEPT !.bytepos = bs.bytepos + len]]
    ELSE read_bytes_loop(bs, d, len, << >>)

\* Bits the stream has handed out so far.
BitsConsumed(bs) == (8 * bs.bytepos) - bs.bitcount

(***************************************************************************)
(* Huffman tables.  A png_huffman is [count, symbol]: count on 0..15,      *)
(* symbol on 0..287.  UNINIT marks an element no store has reached.        *)
(***************************************************************************)
PNG_MAXBITS == 15

UNINIT == -1

\* First loop of png_huffman_build: tally of lengths[lo..hi] (a sequence),
\* taken in index order on top of the count evaluated so far.
RECURSIVE huffman_count(_, _, _, _)
huffman_count(count, lengths, lo, hi) ==
    IF count = << >> \/ lo > hi THEN count
    ELSE IF lo = hi THEN [count EXCEPT ![lengths[lo]] = @ + 1]
    ELSE LET mid == (lo + hi) \div 2
         IN  huffman_count(huffman_count(count, lengths, lo, mid),
                           lengths, mid + 1, hi)

\* Second loop: `left` after each length; -1 as soon as it went negative.
RECURSIVE huffman_left(_, _, _)
huffman_left(count, left, len) ==
    IF len > PNG_MAXBITS THEN left
    ELSE LET l == (2 * left) - count[len]
         IN  IF l < 0 THEN -1 ELSE huffman_left(count, l, len + 1)

\* Offsets that are never advanced past the shorter lengths.
offs_unset(count, offs, len) == offs

\* Third loop: offs[1..15].
RECURSIVE huffman_offs(_, _, _)
huffman_offs(count, offs, len) ==
    IF offs = << >> \/ len >= PNG_MAXBITS THEN offs
    ELSE huffman_offs(count, [offs EXCEPT ![len + 1] = offs[len] + count[len]],
                      len + 1)

\* Fourth loop: symbol[offs[len]++] = i for lengths[lo..hi] in index
\* order.  st = [offs, symbol], evaluated so far.
RECURSIVE huffman_place(_, _, _, _)
huffman_place(st, lengths, lo, hi) ==
    IF st.offs = << >> \/ lo > hi THEN st
    ELSE IF lo = hi
         THEN LET len == lengths[lo]
              IN  IF len # 0
                  THEN [offs   |-> [st.offs EXCEPT ![len] = @ + 1],
                        symbol |-> [st.symbol EXCEPT ![st.offs[len]] = lo - 1]]
                  ELSE st
         ELSE LET mid == (lo + hi) \div 2
              IN  huffman_place(huffman_place(st, lengths, lo, mid),
                                lengths, mid + 1, hi)

EmptyHuffman ==
    [count |-> [l \in 0..PNG_MAXBITS |-> 0], symbol |-> [k \in 0..287 |-> UNINIT]]

\* [ok, h].  lengths holds the n lengths as a sequence.
png_huffman_build(lengths) ==
    IF \E i \in 1..Len(lengths) : lengths[i] > PNG_MAXBITS
    THEN [ok |-> FALSE, h |-> EmptyHuffman]
    ELSE LET placed(count, st) ==
                 [ok |-> TRUE, h |-> [count |-> count, symbol |-> st.symbol]]
             counted(count) ==
                 IF huffman_left(count, 1, 1) < 0
                 THEN [ok |-> FALSE, h |-> [EmptyHuffman EXCEPT !.count = count]]
                 ELSE placed(count,
                          huffman_place(
                              [offs   |-> huffman_offs(count,
                                              [l \in 1..PNG_MAXBITS |-> 0], 1),
                               symbol |-> EmptyHuffman.symbol],
                              lengths, 1, Len(lengths)))
         IN  counted(huffman_count(EmptyHuffman.count, lengths, 1, Len(lengths)))

\* The loop of png_huffman_decode.  [ok, v, bs, idx]: idx is the index
\* into h->symbol that was read (-1 when none was).
RECURSIVE huffman_decode_loop(_, _, _, _, _, _, _)
huffman_decode_loop(bs, d, h, code, first, index, len) ==
    IF len > PNG_MAXBITS THEN [ok |-> FALSE, v |-> 0, bs |-> bs, idx |-> -1]
    ELSE LET turn(g) ==
                 IF ~g.ok THEN [ok |-> FALSE, v |-> 0, bs |-> g.bs, idx |-> -1]
                 ELSE LET c     == code + g.v
                          count == h.count[len]
                      IN  IF c < first + count
                          THEN [ok |-> TRUE,
                                v |-> IF index + (c - first) <= 287
                                      THEN h.symbol[index + (c - first)]
                                      ELSE UNINIT,
                                bs |-> g.bs, idx |-> index + (c - first)]
                          ELSE huffman_decode_loop(g.bs, d, h, 2 * c,
                                   2 * (first + count), index + count, len + 1)
         IN  turn(png_bitstream_get(bs, d, 1))

png_huffman_decode(bs, d, h) == huffman_decode_loop(bs, d, h, 0, 0, 0, 1)

fixed_litlen_lengths ==
    [i \in 1..288 |-> IF i - 1 <= 143 THEN 8
                      ELSE IF i - 1 <= 255 THEN 9
                      ELSE IF i - 1 <= 279 THEN 7 ELSE 8]

fixed_dist_lengths == [i \in 1..32 |-> 5]

\* [ok, litlen, dist]
png_build_fixed_huffman ==
    LET l  == png_huffman_build(fixed_litlen_lengths)
        ds == png_huffman_build(fixed_dist_lengths)
    IN  [ok |-> l.ok /\ ds.ok, litlen |-> l.h, dist |-> ds.h]

order == <<16, 17, 18, 0, 8, 7, 9, 6, 10, 5, 11, 4, 12, 3, 13, 2, 14, 1, 15>>

\* The loop reading ncode 3-bit lengths into code_lengths[order[i]].
\* code_lengths is a function on 0..18.  [ok, cl, bs]
RECURSIVE read_code_lengths(_, _, _, _, _)
read_code_lengths(bs, d, cl, i, ncode) ==
    IF cl = << >> \/ i >= ncode THEN [ok |-> TRUE, cl |-> cl, bs |-> bs]
    ELSE LET store(g) ==
                 IF ~g.ok THEN [ok |-> FALSE, cl |-> cl, bs |-> g.bs]
                 ELSE read_code_lengths(g.bs, d,
                          [cl EXCEPT ![order[i + 1]] = g.v], i + 1, ncode)
         IN  store(png_bitstream_get(bs, d, 3))

\* A run that stores its value once whatever the repeat count.
repeat_once(x, n) == <<x>>

Repeat(x, n) == [k \in 1..n |-> x]

\* The while (i < total) loop of png_build_dynamic_huffman; lengths holds
\* lengths[0..i-1] as a sequence.  [ok, lengths, bs]
RECURSIVE read_lengths(_, _, _, _, _, _)
read_lengths(bs, d, code_huff, lengths, prev, total) ==
    IF Len(lengths) >= total THEN [ok |-> TRUE, lengths |-> lengths, bs |-> bs]
    ELSE
    LET i == Len(lengths)
        fail(b) == [ok |-> FALSE, lengths |-> lengths, bs |-> b]
        \* the repeat count read in nbits bits plus base, of the length v
        run(g, base, v) ==
            IF ~g.ok \/ i + (g.v + base) > total THEN fail(g.bs)
            ELSE read_lengths(g.bs, d, code_huff,
                     lengths \o Repeat(v, g.v + base), v, total)
        symbol(s) ==
            IF ~s.ok THEN fail(s.bs)
            ELSE IF s.v <= 15
            THEN read_lengths(s.bs, d, code_huff, Append(lengths, s.v), s.v, total)
            ELSE IF s.v = 16
            THEN IF i = 0 THEN fail(s.bs)
                 ELSE run(png_bitstream_get(s.bs, d, 2), 3, prev)
            ELSE IF s.v = 17 THEN run(png_bitstream_get(s.bs, d, 3), 3, 0)
            ELSE IF s.v = 18 THEN run(png_bitstream_get(s.bs, d, 7), 11, 0)
            ELSE fail(s.bs)
    IN  symbol(png_huffman_decode(bs, d, code_huff))

\* [ok, litlen, dist, bs]
png_build_dynamic_huffman(bs, d) ==
    LET fail(b) == [ok |-> FALSE, litlen |-> EmptyHuffman,
                    dist |-> EmptyHuffman, bs |-> b]
        built(l, ds, b) ==
            IF ~l.ok \/ ~ds.ok THEN fail(b)
            ELSE [ok |-> TRUE, litlen |-> l.h, dist |-> ds.h, bs |-> b]
        tables(nlen, ndist, ls) ==
            IF ~ls.ok THEN fail(ls.bs)
            ELSE built(png_huffman_build(SubSeq(ls.lengths, 1, nlen)),
                       png_huffman_build(SubSeq(ls.lengths, nlen + 1, nlen + ndist)),
                       ls.bs)
        lengths(nlen, ndist, code_huff, b) ==
            IF ~code_huff.ok THEN fail(b)
            ELSE tables(nlen, ndist,
                     read_lengths(b, d, code_huff.h, << >>, 0, nlen + ndist))
        codes(nlen, ndist, cl) ==
            IF ~cl.ok THEN fail(cl.bs)
            ELSE lengths(nlen, ndist,
                     png_huffman_build([k \in 1..19 |-> cl.cl[k - 1]]), cl.bs)
        hclen(nlen, ndist, g3) ==
            IF ~g3.ok THEN fail(g3.bs)
            ELSE IF nlen > 288 \/ ndist > 32 THEN fail(g3.bs)
            ELSE codes(nlen, ndist,
                     read_code_lengths(g3.bs, d, [k \in 0..18 |-> 0], 0, g3.v + 4))
        hdist(nlen, g2) ==
            IF ~g2.ok THEN fail(g2.bs)
            ELSE hclen(nlen, g2.v + 1, png_bitstream_get(g2.bs, d, 4))
        hlit(g1) ==
            IF ~g1.ok THEN fail(g1.bs)
            ELSE hdist(g1.v + 257, png_bitstream_get(g1.bs, d, 5))
    IN  hlit(png_bitstream_get(bs, d, 5))

len_base ==
    <<3, 4, 5, 6, 7, 8, 9, 10, 11, 13, 15, 17, 19, 23, 27, 31, 35, 43, 51, 59,
      67, 83, 99, 115, 131, 163, 195, 227, 258>>

len_extra ==
    <<0, 0, 0, 0, 0, 0, 0, 0, 1, 1, 1, 1, 2, 2, 2, 2, 3, 3, 3, 3,
      4, 4, 4, 4, 5, 5, 5, 5, 0>>

dist_base ==
    <<1, 2, 3, 4, 5, 7, 9, 13, 17, 25, 33, 49, 65, 97, 129, 193, 257, 385,
      513, 769, 1025, 1537, 2049, 3073, 4097, 6145, 8193, 12289, 16385, 24577>>

dist_extra ==
    <<0, 0, 0, 0, 1, 1, 2, 2, 3, 3, 4, 4, 5, 5, 6, 6, 7, 7, 8, 8,
      9, 9, 10, 10, 11, 11, 12, 12, 13, 13>>

\* The copy as one block move: the bytes that were in out before the copy,
\* and 0 where the source runs past them.
copy_block(out, distance, length) ==
    out \o [k \in 1..length |->
               IF k <= distance THEN out[(Len(out) - distance) + k] ELSE 0]

\* The copy loop of a back-reference: out[out_pos] = out[out_pos - distance].
\* `length` turns, one byte each, on top of the out evaluated so far.
RECURSIVE lz77_copy(_, _, _)
lz77_copy(out, distance, length) ==
    IF Len(out) < 0 \/ length = 0 THEN out
    ELSE IF length = 1 THEN Append(out, out[(Len(out) - distance) + 1])
    ELSE lz77_copy(lz77_copy(out, distance, length \div 2),
                   distance, length - (length \div 2))

(***************************************************************************)
(* Row filters                                                             *)
(***************************************************************************)
\* png_abs without the sign test.
abs_unsigned(x) == x

png_abs(x) == IF x < 0 THEN -x ELSE x

\* One pass of a filter loop of png_unfilter_row from index i on.
\* row: a sequence of n bytes; prev_row: NULL or a pointer to such a row.
RECURSIVE unfilter_loop(_, _, _, _, _, _)
unfilter_loop(row, prev_row, filter, bpp, n, i) ==
    IF row = << >> \/ i >= n THEN row
    ELSE
    LET a  == IF i >= bpp THEN row[(i - bpp) + 1] ELSE 0
        b  == IF prev_row # NULL THEN prev_row[1][i + 1] ELSE 0
        c  == IF prev_row # NULL /\ i >= bpp THEN prev_row[1][(i - bpp) + 1] ELSE 0
        p  == (a + b) - c
        pa == png_abs(p - a)
        pb == png_abs(p - b)
        pc_ == png_abs(p - c)
        pr == IF pa <= pb /\ pa <= pc_ THEN a ELSE IF pb <= pc_ THEN b ELSE c
        add == CASE filter = 1 -> a
                 [] filter = 2 -> b
                 [] filter = 3 -> (a + b) \div 2
                 [] filter = 4 -> pr
    IN  unfilter_loop([row EXCEPT ![i + 1] = (row[i + 1] + add) % 256],
                      prev_row, filter, bpp, n, i + 1)

\* The row after png_unfilter_row; n = width * channels as the code has it.
png_unfilter_row(row, prev_row, filter, n, channels) ==
    CASE filter = 0 -> row
      [] filter = 1 -> unfilter_loop(row, prev_row, 1, channels, n, channels)
      [] filter = 2 -> IF prev_row # NULL
                       THEN unfilter_loop(row, prev_row, 2, channels, n, 0)
                       ELSE row
      [] filter = 3 -> unfilter_loop(row, prev_row, 3, channels, n, 0)
      [] filter = 4 -> unfilter_loop(row, prev_row, 4, channels, n, 0)
      [] OTHER      -> row

(***************************************************************************)
(* png_create, png_clone                                                   *)
(***************************************************************************)
\* What a zero-size malloc/calloc/realloc may return: NULL or a pointer.
ZeroAlloc == {"null", "pointer"}

\* width * height * channels as png_create computes it (left to right).
create_size(width, height, channels) ==
    MulWrap(MulWrap(width, height), channels)

create_overflows(width, height, channels) ==
    \/ MulOverflows(width, height)
    \/ (~MulOverflows(width, height) /\ MulOverflows(width * height, channels))

\* The image png_create returns; za decides a zero-size calloc.  A negative
\* int converts to a size_t above 2^63, which no allocation satisfies.
png_create(width, height, channels, za) ==
    LET size == create_size(width, height, channels)
    IN  IF size < 0 \/ (size = 0 /\ za = "null") THEN NULL
        ELSE << [width |-> width, height |-> height, channels |-> channels,
                 data |-> [k \in 1..size |-> 0]] >>

png_clone(img, za) ==
    IF img = NULL THEN NULL
    ELSE LET clone == png_create(img[1].width, img[1].height, img[1].channels, za)
         IN  IF clone = NULL THEN NULL
             ELSE << [clone[1] EXCEPT !.data = img[1].data] >>

(***************************************************************************)
(* Decoder helpers                                                         *)
(***************************************************************************)
\* png_read_be32_mem(p) for p = buf + off, as a uint32_t word.
png_read_be32_mem(buf, off) ==
    <<(buf[off + 1] * 256) + buf[off + 2], (buf[off + 3] * 256) + buf[off + 4]>>

\* The value of a uint32_t known to be below 2^31.
WVal(x) == (x[1] * 65536) + x[2]

\* channels for a color type, 0 when the switch takes its default.
color_channels(color_type) ==
    CASE color_type = 0 -> 1
      [] color_type = 2 -> 3
      [] color_type = 4 -> 2
      [] color_type = 6 -> 4
      [] OTHER -> 0

\* 1 + width * channels and height * (1 + width * channels) in `int`.
row_bytes_of(width, channels) == AddWrap(1, MulWrap(width, channels))

raw_len_of(width, height, channels) ==
    MulWrap(height, row_bytes_of(width, channels))

raw_len_overflows(width, height, channels) ==
    \/ MulOverflows(width, channels)
    \/ AddOverflows(1, MulWrap(width, channels))
    \/ MulOverflows(height, row_bytes_of(width, channels))

\* What a signed overflow may do: continue with the two's-complement
\* result, or trap.
Outcomes(overflow) == IF overflow THEN {"wrap", "trap"} ELSE {"defined"}

\* Offset of the DEFLATE payload in the zlib stream (2, or 6 with FDICT).
zlib_pos(zdata) == IF (zdata[2] \div 32) % 2 = 1 THEN 6 ELSE 2

\* The header checks without the test of the check bits.
zlib_header_no_fcheck(zdata) ==
    /\ Len(zdata) >= 6
    /\ zdata[1] % 16 = 8
    /\ ((zdata[2] \div 32) % 2 = 1 => Len(zdata) >= 10)
    /\ Len(zdata) >= zlib_pos(zdata) + 4

\* Whether png_inflate_zlib gets past its header checks.
zlib_header_ok(zdata) ==
    /\ Len(zdata) >= 6
    /\ zdata[1] % 16 = 8
    /\ ((zdata[1] * 256) + zdata[2]) % 31 = 0
    /\ ((zdata[2] \div 32) % 2 = 1 => Len(zdata) >= 10)
    /\ Len(zdata) >= zlib_pos(zdata) + 4

\* bs.data[0 .. deflate_len - 1]
deflate_payload(zdata) == SubSeq(zdata, zlib_pos(zdata) + 1, Len(zdata) - 4)

\* The big-endian Adler-32 in the last four bytes.
expected_adler(zdata) == png_read_be32_mem(zdata, Len(zdata) - 4)

(***************************************************************************)
(* State.  One caller: it builds an image or an input file, then runs      *)
(* png_load_mem on the file; pc is the position inside that call.          *)
(***************************************************************************)
VARIABLES
    img,          \* the caller's image (png_create / png_clone), or NULL
    orig,         \* <<img, keyword, text>> of the call that saved `file`, or NULL
    file,         \* data[0 .. len-1] handed to png_load_mem
    pc,           \* "input", "ready", "mutated", then the decoder's position
    pos,          \* png_load_mem: pos
    width,        \* png_load_mem: width
    height,       \* png_load_mem: height
    color_type,   \* png_load_mem: color_type
    idat_data,    \* png_load_mem: idat_data[0 .. idat_len-1], or NULL
    expected_len, \* png_inflate_zlib: expected_len (raw_len as an int)
    bs,           \* png_inflate_zlib: the bit stream
    out,          \* png_inflate_zlib: out[0 .. out_pos-1]
    final,        \* png_inflate_zlib: final
    litlen,       \* png_inflate_zlib: litlen of the current block
    dist,         \* png_inflate_zlib: dist of the current block
    raw,          \* png_load_mem: raw, or NULL
    y,            \* png_load_mem: y of the row loop
    dec,          \* png_load_mem: img, the image being filled, or NULL
    ret,          \* what png_load_mem returned, once pc = "done"
    oob,          \* an access outside an allocation has happened
    ub,           \* a signed overflow has happened
    heap,         \* png_load_mem: what happened to each block it allocated
    crc_table,    \* the static array png_crc_table as it is in memory
    png_crc_table_computed,  \* the static flag
    thread,       \* the png_crc call of each thread: where it is, its locals
    mem,          \* allocated blocks by address: png_image structs, pixel buffers
    image_a,      \* a caller's png_image pointer (0: NULL)
    image_b,      \* what png_clone(image_a) returned (0: NULL, -1: not called)
    arg,          \* a direct call of one function of png.h: its name and arguments
    res           \* what that call returned and stored through its pointers

chunk_vars == <<pos, width, height, color_type, idat_data>>

inflate_vars == <<expected_len, bs, out, final, litlen, dist>>

row_vars == <<raw, y, dec>>

\* The statics of the CRC code and the threads that call png_crc.
crc_vars == <<crc_table, png_crc_table_computed, thread>>

\* The caller and its png_load_mem call.
main_vars ==
    <<img, orig, file, pc, chunk_vars, inflate_vars, row_vars, ret, oob, ub,
      heap>>

\* A caller that clones an image, and the heap its images live in.
clone_vars == <<mem, image_a, image_b>>

\* A caller that calls one function of png.h directly.
call_vars == <<arg, res>>

vars == <<main_vars, crc_vars, clone_vars, call_vars>>

\* No direct call has been made.
NoCall == [fn |-> "none"]

\* The addresses malloc and calloc can return.
HeapBlocks == 4

Addrs == 1..HeapBlocks

\* The largest pixel buffer of an image the cloning caller creates.
MaxCloneBytes == 2

\* A block that is not allocated.
NoBlock == [live |-> FALSE, image |-> << >>, bytes |-> << >>]

\* The threads that call png_crc at the same time.
Threads == {"T1", "T2"}

\* buf of each thread's call: the type of an IEND chunk, and an IHDR chunk's
\* type and data for a 1 x 1 grey image.
CrcInput(t) ==
    IF t = "T1" THEN <<73, 69, 78, 68>>
    ELSE <<73, 72, 68, 82, 0, 0, 0, 1, 0, 0, 0, 1, 8, 0, 0, 0, 0>>

\* A thread before its call: pc, n of png_make_crc_table, whether it has
\* stored the flag, n and c of png_update_crc, and whether it has read a
\* table entry that did not hold its final value.
IdleThread ==
    [pc |-> "idle", n |-> 0, flag_stored |-> FALSE, i |-> 0,
     c |-> <<65535, 65535>>, stale |-> FALSE]


\* The blocks of one png_load_mem call: the IDAT accumulator, the inflate
\* output (out in png_inflate_zlib, raw in png_load_mem) and the image.
\* "none": not allocated, "live": allocated, "freed": released once,
\* "twice": released again.
NoHeap == [idat_data |-> "none", out |-> "none", img |-> "none"]

malloc(h, block) == [h EXCEPT ![block] = "live"]

\* A release that does not happen.
not_freed(h, block) == h

\* free(p); free(NULL) does nothing.
free(h, block) ==
    [h EXCEPT ![block] = IF @ = "live" THEN "freed"
                         ELSE IF @ = "none" THEN "none" ELSE "twice"]

NoStream == [bytepos |-> 0, bitbuf |-> 0, bitcount |-> 0]

idat_len == IF idat_data = NULL THEN 0 ELSE Len(idat_data[1])

out_pos == Len(out)

Init ==
    /\ img = NULL
    /\ orig = NULL
    /\ file = << >>
    /\ pc = "input"
    /\ pos = 0
    /\ width = 0
    /\ height = 0
    /\ color_type = 0
    /\ idat_data = NULL
    /\ expected_len = 0
    /\ bs = NoStream
    /\ out = << >>
    /\ final = 0
    /\ litlen = EmptyHuffman
    /\ dist = EmptyHuffman
    /\ raw = NULL
    /\ y = 0
    /\ dec = NULL
    /\ ret = NULL
    /\ oob = FALSE
    /\ ub = FALSE
    /\ heap = NoHeap
    /\ crc_table = [n \in 0..255 |-> <<0, 0>>]
    /\ png_crc_table_computed = 0
    /\ thread = [t \in Threads |-> IdleThread]
    /\ mem = [a \in Addrs |-> NoBlock]
    /\ image_a = 0
    /\ image_b = -1
    /\ arg = NoCall
    /\ res = NoCall

(***************************************************************************)
(* png_load_mem: signature and chunk loop                                  *)
(***************************************************************************)
\* return NULL with the buffers the call still holds released.
ReturnNull ==
    /\ ret' = NULL
    /\ pc' = "done"
    /\ idat_data' = NULL
    /\ out' = << >>
    /\ raw' = NULL
    /\ dec' = NULL

png_load_mem_enter ==
    /\ pc \in {"ready", "mutated"}
    /\ IF Len(file) < 8 \/ SubSeq(file, 1, 8) # PNG_SIGNATURE
       THEN /\ ReturnNull
            /\ pos' = pos
       ELSE /\ pc' = "chunks"
            /\ pos' = 8
            /\ UNCHANGED <<ret, idat_data, out, raw, dec>>
    /\ heap' = NoHeap
    /\ UNCHANGED <<img, orig, file, width, height, color_type, expected_len,
                   bs, final, litlen, dist, y, oob, ub>>
    /\ UNCHANGED <<crc_vars, clone_vars, call_vars>>

chunk_len == png_read_be32_mem(file, pos)

chunk_type == SubSeq(file, pos + 5, pos + 8)

\* pos + 8 <= len, and after pos += 8: pos + chunk_len + 4 <= len.  size_t
\* has 64 bits, so the sum does not wrap.
chunk_fits ==
    /\ pos + 8 <= Len(file)
    /\ ~WGreater(chunk_len, (Len(file) - (pos + 8)) - 4)

\* The while condition fails.
chunk_loop_end ==
    /\ pc = "chunks"
    /\ pos + 8 > Len(file)
    /\ pc' = "post"
    /\ UNCHANGED <<img, orig, file, chunk_vars, inflate_vars, row_vars, ret,
                   oob, ub, heap>>
    /\ UNCHANGED <<crc_vars, clone_vars, call_vars>>

\* if (pos + chunk_len + 4 > len) break;
chunk_overrun ==
    /\ pc = "chunks"
    /\ pos + 8 <= Len(file)
    /\ ~chunk_fits
    /\ pos' = pos + 8
    /\ pc' = "post"
    /\ UNCHANGED <<img, orig, file, width, height, color_type, idat_data,
                   inflate_vars, row_vars, ret, oob, ub, heap>>
    /\ UNCHANGED <<crc_vars, clone_vars, call_vars>>

chunk_IHDR ==
    /\ pc = "chunks"
    /\ chunk_fits
    /\ chunk_type = T_IHDR
    /\ IF WVal(chunk_len) < 13
       THEN /\ pc' = "post"
            /\ pos' = pos + 8
            /\ UNCHANGED <<width, height, color_type>>
       ELSE /\ width' = WToInt(png_read_be32_mem(file, pos + 8))
            /\ height' = WToInt(png_read_be32_mem(file, pos + 12))
            /\ color_type' = file[(pos + 8 + 9) + 1]
            /\ pos' = pos + 8 + WVal(chunk_len) + 4
            /\ pc' = "chunks"
    /\ UNCHANGED <<img, orig, file, idat_data, inflate_vars, row_vars, ret,
                   oob, ub, heap>>
    /\ UNCHANGED <<crc_vars, clone_vars, call_vars>>

\* The accumulator holding only the chunk read last.
idat_replace(acc, bytes) == bytes

\* memcpy(idat_data + idat_len, data + pos, chunk_len) after the realloc.
idat_append(acc, bytes) == acc \o bytes

\* realloc to idat_len + chunk_len bytes and append the payload; a
\* zero-size realloc returns NULL or a pointer.
chunk_IDAT ==
    /\ pc = "chunks"
    /\ chunk_fits
    /\ chunk_type = T_IDAT
    /\ \E za \in ZeroAlloc :
          idat_data' =
              IF idat_len + WVal(chunk_len) = 0 /\ za = "null" THEN NULL
              ELSE << idat_append(IF idat_data = NULL THEN << >> ELSE idat_data[1],
                              SubSeq(file, pos + 9, pos + 8 + WVal(chunk_len))) >>
    /\ heap' = [heap EXCEPT !.idat_data = IF idat_data' = NULL THEN "none"
                                        ELSE "live"]
    /\ pos' = pos + 8 + WVal(chunk_len) + 4
    /\ UNCHANGED <<img, orig, file, pc, width, height, color_type,
                   inflate_vars, row_vars, ret, oob, ub>>
    /\ UNCHANGED <<crc_vars, clone_vars, call_vars>>

chunk_IEND ==
    /\ pc = "chunks"
    /\ chunk_fits
    /\ chunk_type = T_IEND
    /\ pos' = pos + 8
    /\ pc' = "post"
    /\ UNCHANGED <<img, orig, file, width, height, color_type, idat_data,
                   inflate_vars, row_vars, ret, oob, ub, heap>>
    /\ UNCHANGED <<crc_vars, clone_vars, call_vars>>

chunk_skip ==
    /\ pc = "chunks"
    /\ chunk_fits
    /\ chunk_type \notin {T_IHDR, T_IDAT, T_IEND}
    /\ pos' = pos + 8 + WVal(chunk_len) + 4
    /\ UNCHANGED <<img, orig, file, pc, width, height, color_type, idat_data,
                   inflate_vars, row_vars, ret, oob, ub, heap>>
    /\ UNCHANGED <<crc_vars, clone_vars, call_vars>>

(***************************************************************************)
(* png_load_mem: after the chunk loop                                      *)
(***************************************************************************)
\* A signed overflow trapped, or an access left its allocation.
Crash ==
    /\ pc' = "crashed"
    /\ UNCHANGED <<idat_data, out, raw, dec, ret, heap>>

\* The test after the chunk loop with only its last operand.
missing_idat == idat_data = NULL

\* if (width == 0 || height == 0 || !idat_data)
missing_header_or_idat == width = 0 \/ height = 0 \/ idat_data = NULL

load_after_chunks ==
    /\ pc = "post"
    /\ IF missing_header_or_idat \/ color_channels(color_type) = 0
       THEN /\ ReturnNull
            /\ heap' = free(heap, "idat_data")
            /\ UNCHANGED <<expected_len, ub>>
       ELSE LET channels == color_channels(color_type)
                overflow == raw_len_overflows(width, height, channels)
            IN  \E o \in Outcomes(overflow) :
                    /\ ub' = (ub \/ overflow)
                    /\ IF o = "trap"
                       THEN Crash /\ UNCHANGED expected_len
                       ELSE /\ expected_len' = raw_len_of(width, height, channels)
                            /\ pc' = "inflate"
                            /\ UNCHANGED <<idat_data, out, raw, dec, ret, heap>>
    /\ UNCHANGED <<img, orig, file, pos, width, height, color_type,
                   bs, final, litlen, dist, y, oob>>
    /\ UNCHANGED <<crc_vars, clone_vars, call_vars>>

(***************************************************************************)
(* png_inflate_zlib                                                        *)
(***************************************************************************)
\* Header checks and malloc(expected_len).
png_inflate_zlib_enter ==
    /\ pc = "inflate"
    /\ \E za \in ZeroAlloc :
          IF \/ ~zlib_header_ok(idat_data[1])
             \/ expected_len < 0
             \/ (expected_len = 0 /\ za = "null")
          THEN /\ ReturnNull
               /\ heap' = free(heap, "idat_data")
               /\ UNCHANGED <<bs, final>>
          ELSE /\ bs' = NoStream
               /\ out' = << >>
               /\ final' = 0
               /\ pc' = "block"
               /\ heap' = malloc(heap, "out")
               /\ UNCHANGED <<idat_data, raw, dec, ret>>
    /\ UNCHANGED <<img, orig, file, pos, width, height, color_type,
                   expected_len, litlen, dist, y, oob, ub>>
    /\ UNCHANGED <<crc_vars, clone_vars, call_vars>>

payload == deflate_payload(idat_data[1])

\* The BFINAL and BTYPE reads at the head of a block: [ok, bfinal, btype, bs].
block_header ==
    LET btype(f, t) == [ok |-> t.ok, bfinal |-> f.v, btype |-> t.v, bs |-> t.bs]
        bfinal(f) ==
            IF ~f.ok THEN [ok |-> FALSE, bfinal |-> 0, btype |-> 0, bs |-> f.bs]
            ELSE btype(f, png_bitstream_get(f.bs, payload, 2))
    IN  bfinal(png_bitstream_get(bs, payload, 1))

\* A stored block read from the stream b: [ok, bytes, bs].
stored_block(b) ==
    LET fail(x) == [ok |-> FALSE, bytes |-> << >>, bs |-> x]
        read(sl, sn) ==
            IF ~sn.ok THEN fail(sn.bs)
            ELSE IF 65535 - sl.v # sn.v THEN fail(sn.bs)
            ELSE IF out_pos + sl.v > expected_len THEN fail(sn.bs)
            ELSE png_bitstream_read_bytes(sn.bs, payload, sl.v)
        stored_nlen(sl) ==
            IF ~sl.ok THEN fail(sl.bs)
            ELSE read(sl, png_bitstream_get(sl.bs, payload, 16))
        stored_len(al) ==
            IF ~al.ok THEN fail(al.bs)
            ELSE stored_nlen(png_bitstream_get(al.bs, payload, 16))
    IN  stored_len(png_bitstream_align(b, payload))

\* The tables of a Huffman block read from the stream b: [ok, litlen, dist, bs].
huffman_tables(btype, b) ==
    LET fixed(t) == [ok |-> t.ok, litlen |-> t.litlen, dist |-> t.dist, bs |-> b]
    IN  IF btype = 1 THEN fixed(png_build_fixed_huffman)
        ELSE png_build_dynamic_huffman(b, payload)

AfterBlock(bfinal) == IF bfinal = 1 THEN "trailer" ELSE "block"

\* goto fail at the head of a block: underrun, BTYPE = 3, a bad stored
\* block or bad Huffman tables.
inflate_block_fail ==
    /\ pc = "block"
    /\ \E hd \in {block_header} :
          \/ /\ ~hd.ok
             /\ bs' = hd.bs
          \/ /\ hd.ok
             /\ hd.btype = 3
             /\ bs' = hd.bs
          \/ /\ hd.ok
             /\ hd.btype = 0
             /\ \E sb \in {stored_block(hd.bs)} : ~sb.ok /\ bs' = sb.bs
          \/ /\ hd.ok
             /\ hd.btype \in {1, 2}
             /\ \E t \in {huffman_tables(hd.btype, hd.bs)} : ~t.ok /\ bs' = t.bs
    /\ ReturnNull
    /\ heap' = free(free(heap, "out"), "idat_data")
    /\ UNCHANGED <<img, orig, file, pos, width, height, color_type,
                   expected_len, final, litlen, dist, y, oob, ub>>
    /\ UNCHANGED <<crc_vars, clone_vars, call_vars>>

inflate_stored ==
    /\ pc = "block"
    /\ \E hd \in {block_header} :
          /\ hd.ok
          /\ hd.btype = 0
          /\ final' = hd.bfinal
          /\ pc' = AfterBlock(hd.bfinal)
          /\ \E sb \in {stored_block(hd.bs)} :
                /\ sb.ok
                /\ out' = out \o sb.bytes
                /\ bs' = sb.bs
    /\ UNCHANGED <<img, orig, file, chunk_vars, expected_len, litlen, dist,
                   row_vars, ret, oob, ub, heap>>
    /\ UNCHANGED <<crc_vars, clone_vars, call_vars>>

inflate_huffman ==
    /\ pc = "block"
    /\ \E hd \in {block_header} :
          /\ hd.ok
          /\ hd.btype \in {1, 2}
          /\ final' = hd.bfinal
          /\ \E t \in {huffman_tables(hd.btype, hd.bs)} :
                /\ t.ok
                /\ litlen' = t.litlen
                /\ dist' = t.dist
                /\ bs' = t.bs
    /\ pc' = "symbol"
    /\ UNCHANGED <<img, orig, file, chunk_vars, expected_len, out,
                   row_vars, ret, oob, ub, heap>>
    /\ UNCHANGED <<crc_vars, clone_vars, call_vars>>

\* One turn of the for (;;) loop: the literal/length symbol.
sym == png_huffman_decode(bs, payload, litlen)

\* The length/distance pair after length symbol s:
\* [ok, length, distance, bs, dist_idx].
backref(s) ==
    LET fail(b, idx) == [ok |-> FALSE, length |-> 0, distance |-> 0, bs |-> b,
                         dist_idx |-> idx]
        copy(length, distance, ds, dx) ==
            IF ~dx.ok THEN fail(dx.bs, ds.idx)
            ELSE IF distance <= 0 \/ distance > out_pos THEN fail(dx.bs, ds.idx)
            ELSE IF out_pos + length > expected_len THEN fail(dx.bs, ds.idx)
            ELSE [ok |-> TRUE, length |-> length, distance |-> distance,
                  bs |-> dx.bs, dist_idx |-> ds.idx]
        extra_dist(length, ds, dx) ==
            copy(length, dist_base[ds.v + 1] + dx.v, ds, dx)
        dist_sym(length, ds) ==
            IF ~ds.ok THEN fail(ds.bs, ds.idx)
            ELSE IF ds.v >= 30 \/ ds.v = UNINIT THEN fail(ds.bs, ds.idx)
            ELSE extra_dist(length, ds,
                     png_bitstream_get(ds.bs, payload, dist_extra[ds.v + 1]))
        extra(ex) ==
            IF ~ex.ok THEN fail(ex.bs, -1)
            ELSE dist_sym(len_base[(s.v - 257) + 1] + ex.v,
                          png_huffman_decode(ex.bs, payload, dist))
    IN  extra(png_bitstream_get(s.bs, payload, len_extra[(s.v - 257) + 1]))

inflate_literal ==
    /\ pc = "symbol"
    /\ \E s \in {sym} :
          /\ s.ok
          /\ s.v >= 0
          /\ s.v < 256
          /\ out_pos < expected_len
          /\ out' = Append(out, s.v)
          /\ bs' = s.bs
    /\ UNCHANGED <<img, orig, file, pc, chunk_vars, expected_len, final,
                   litlen, dist, row_vars, ret, oob, ub, heap>>
    /\ UNCHANGED <<crc_vars, clone_vars, call_vars>>

inflate_end_of_block ==
    /\ pc = "symbol"
    /\ \E s \in {sym} :
          /\ s.ok
          /\ s.v = 256
          /\ bs' = s.bs
    /\ pc' = AfterBlock(final)
    /\ UNCHANGED <<img, orig, file, chunk_vars, expected_len, out, final,
                   litlen, dist, row_vars, ret, oob, ub, heap>>
    /\ UNCHANGED <<crc_vars, clone_vars, call_vars>>

inflate_backref ==
    /\ pc = "symbol"
    /\ \E s \in {sym} :
          /\ s.ok
          /\ s.v >= 257
          /\ s.v <= 285
          /\ \E r \in {backref(s)} :
                /\ r.ok
                /\ out' = lz77_copy(out, r.distance, r.length)
                /\ bs' = r.bs
    /\ UNCHANGED <<img, orig, file, pc, chunk_vars, expected_len, final,
                   litlen, dist, row_vars, ret, oob, ub, heap>>
    /\ UNCHANGED <<crc_vars, clone_vars, call_vars>>

\* goto fail inside the symbol loop.
inflate_symbol_fail ==
    /\ pc = "symbol"
    /\ \E s \in {sym} :
          \/ /\ ~s.ok
             /\ bs' = s.bs
          \/ /\ s.ok
             /\ s.v >= 0
             /\ s.v < 256
             /\ out_pos >= expected_len
             /\ bs' = s.bs
          \/ /\ s.ok
             /\ s.v >= 257
             /\ s.v <= 285
             /\ \E r \in {backref(s)} : ~r.ok /\ bs' = r.bs
          \/ /\ s.ok
             /\ s.v > 285
             /\ bs' = s.bs
    /\ ReturnNull
    /\ heap' = free(free(heap, "out"), "idat_data")
    /\ UNCHANGED <<img, orig, file, pos, width, height, color_type,
                   expected_len, final, litlen, dist, y, oob, ub>>
    /\ UNCHANGED <<crc_vars, clone_vars, call_vars>>

\* After the block loop: length and Adler-32 checks; png_load_mem then
\* frees idat_data.
inflate_finish ==
    /\ pc = "trailer"
    /\ IF out_pos # expected_len \/ png_adler32(out) # expected_adler(idat_data[1])
       THEN /\ ReturnNull
            /\ heap' = free(free(heap, "out"), "idat_data")
       ELSE /\ raw' = <<out>>
            /\ out' = << >>
            /\ idat_data' = NULL
            /\ pc' = "create"
            /\ heap' = free(heap, "idat_data")
            /\ UNCHANGED <<dec, ret>>
    /\ UNCHANGED <<img, orig, file, pos, width, height, color_type,
                   expected_len, bs, final, litlen, dist, y, oob, ub>>
    /\ UNCHANGED <<crc_vars, clone_vars, call_vars>>

(***************************************************************************)
(* png_load_mem: image creation and the row loop                           *)
(***************************************************************************)
channels == color_channels(color_type)

load_create ==
    /\ pc = "create"
    /\ LET overflow == create_overflows(width, height, channels)
       IN  \E o \in Outcomes(overflow), za \in ZeroAlloc :
               /\ ub' = (ub \/ overflow)
               /\ IF o = "trap" THEN Crash /\ UNCHANGED y
                  ELSE IF png_create(width, height, channels, za) = NULL
                  THEN /\ ReturnNull
                       /\ heap' = free(heap, "out")
                       /\ UNCHANGED y
                  ELSE /\ dec' = png_create(width, height, channels, za)
                       /\ y' = 0
                       /\ pc' = "rows"
                       /\ heap' = malloc(heap, "img")
                       /\ UNCHANGED <<idat_data, out, raw, ret>>
    /\ UNCHANGED <<img, orig, file, pos, width, height, color_type,
                   inflate_vars, oob>>
    /\ UNCHANGED <<crc_vars, clone_vars, call_vars>>

\* The int values one turn of the row loop computes.
row_bytes == row_bytes_of(width, channels)

row_off == MulWrap(y, row_bytes)

row_n == MulWrap(width, channels)

img_off == MulWrap(MulWrap(y, width), channels)

row_overflows ==
    \/ MulOverflows(width, channels)
    \/ AddOverflows(1, row_n)
    \/ MulOverflows(y, row_bytes)
    \/ MulOverflows(y, width)
    \/ MulOverflows(MulWrap(y, width), channels)

\* Every access of the turn lies in raw[0 .. raw_len-1] and in the image
\* buffer: the filter byte, the row and the memcpy of (size_t)row_n bytes.
row_in_bounds ==
    /\ row_off >= 0
    /\ row_off < Len(raw[1])
    /\ row_n >= 0
    /\ row_off + 1 + row_n <= Len(raw[1])
    /\ img_off >= 0
    /\ img_off + row_n <= Len(dec[1].data)

\* buf with buf[off .. off+n-1] overwritten by bytes[0 .. n-1].
store_bytes(buf, off, n, bytes) ==
    [k \in 1..Len(buf) |->
        IF k > off /\ k <= off + n THEN bytes[k - off] ELSE buf[k]]

\* One turn of the row loop over the row at raw + off with n bytes after
\* its filter byte, copied to img->data + to.
unfilter_turn(off, n, prev_off, to) ==
    \E done \in { png_unfilter_row(
                      SubSeq(raw[1], off + 2, off + 1 + n),
                      IF y = 0 THEN NULL
                      ELSE << SubSeq(raw[1], prev_off + 2, prev_off + 1 + n) >>,
                      raw[1][off + 1], n, channels) } :
        /\ raw' = << store_bytes(raw[1], off + 1, n, done) >>
        /\ dec' = << [dec[1] EXCEPT !.data = store_bytes(dec[1].data, to, n, done)] >>

load_row ==
    /\ pc = "rows"
    /\ y < height
    /\ \E o \in Outcomes(row_overflows) :
          /\ ub' = (ub \/ row_overflows)
          /\ IF o = "trap" THEN Crash /\ UNCHANGED <<y, oob>>
             ELSE IF ~row_in_bounds
             THEN Crash /\ oob' = TRUE /\ UNCHANGED y
             ELSE /\ unfilter_turn(row_off, row_n,
                                   MulWrap(y - 1, row_bytes), img_off)
                  /\ y' = y + 1
                  /\ UNCHANGED <<pc, idat_data, out, ret, oob, heap>>
    /\ UNCHANGED <<img, orig, file, pos, width, height, color_type, inflate_vars>>
    /\ UNCHANGED <<crc_vars, clone_vars, call_vars>>

\* free(raw); return img;
load_return ==
    /\ pc = "rows"
    /\ y >= height
    /\ ret' = dec
    /\ raw' = NULL
    /\ dec' = NULL
    /\ pc' = "done"
    /\ heap' = free(heap, "out")
    /\ UNCHANGED <<img, orig, file, chunk_vars, inflate_vars, y, oob, ub>>
    /\ UNCHANGED <<crc_vars, clone_vars, call_vars>>

(***************************************************************************)
(* The caller: images to save, input files to load                         *)
(***************************************************************************)
MaxWidth == 2

MaxHeight == 2

MaxPixelBytes == 4

PixelValues == {0, 7, 255}

Keywords == {<<65>>}

Texts == {<<116>>}

\* The keyword and text arguments of png_save_with_text: NULL or a string.
KeywordArgs == {NULL} \cup {<<keyword>> : keyword \in Keywords}

TextArgs == {NULL} \cup {<<text>> : text \in Texts}

\* One row of LargeWidth RGBA pixels: more raw bytes than max_block.
LargeWidth == 16384

\* png_create(w, h, c) by a caller that passes positive sizes.
create_image ==
    /\ pc = "input"
    /\ img = NULL
    /\ \E w \in 1..MaxWidth \cup {LargeWidth}, h \in 1..MaxHeight, c \in 1..4 :
          /\ \/ w * h * c <= MaxPixelBytes
             \/ (w = LargeWidth /\ h = 1 /\ c = 4)
          /\ img' = png_create(w, h, c, "pointer")
    /\ UNCHANGED <<orig, file, pc, chunk_vars, inflate_vars, row_vars, ret,
                   oob, ub, heap>>
    /\ UNCHANGED <<crc_vars, clone_vars, call_vars>>

\* The caller fills img->data (test_png_roundtrip: memcpy into png->data).
\* The buffers a caller writes into an image of n bytes: every choice of
\* PixelValues for a small one, a byte ramp for a large one.
PixelBuffers(n) ==
    IF n <= MaxPixelBytes
    THEN {d \in [1..n -> PixelValues] : \E k \in 1..n : d[k] # 0}
    ELSE {[k \in 1..n |-> (k * 7) % 256]}

set_pixels ==
    /\ pc = "input"
    /\ img # NULL
    /\ img[1].data = [k \in 1..Len(img[1].data) |-> 0]
    /\ \E d \in PixelBuffers(Len(img[1].data)) :
          img' = << [img[1] EXCEPT !.data = d] >>
    /\ UNCHANGED <<orig, file, pc, chunk_vars, inflate_vars, row_vars, ret,
                   oob, ub, heap>>
    /\ UNCHANGED <<crc_vars, clone_vars, call_vars>>

\* The caller replaces its image by png_clone of it.
clone_image ==
    /\ pc = "input"
    /\ img # NULL
    /\ img' = png_clone(img, "pointer")
    /\ UNCHANGED <<orig, file, pc, chunk_vars, inflate_vars, row_vars, ret,
                   oob, ub, heap>>
    /\ UNCHANGED <<crc_vars, clone_vars, call_vars>>

\* png_save: the file holds what png_save_internal wrote.
png_save ==
    /\ pc = "input"
    /\ img # NULL
    /\ file' = png_save_internal(img[1], NULL, NULL)
    /\ orig' = <<img[1], NULL, NULL>>
    /\ pc' = "ready"
    /\ UNCHANGED <<img, chunk_vars, inflate_vars, row_vars, ret, oob, ub, heap>>
    /\ UNCHANGED <<crc_vars, clone_vars, call_vars>>

png_save_with_text ==
    /\ pc = "input"
    /\ img # NULL
    /\ Len(img[1].data) <= MaxPixelBytes
    /\ \E keyword \in KeywordArgs, text \in TextArgs :
          /\ file' = png_save_internal(img[1], keyword, text)
          /\ orig' = <<img[1], keyword, text>>
    /\ pc' = "ready"
    /\ UNCHANGED <<img, chunk_vars, inflate_vars, row_vars, ret, oob, ub, heap>>
    /\ UNCHANGED <<crc_vars, clone_vars, call_vars>>

(* zlib streams for hand-made files: <<stream, width, height, color type>> *)
(* with the IHDR fields the stream's raw length fits.                      *)
stored_stream(rawbytes) == png_deflate_store(rawbytes)

\* fixed-Huffman block: literals 0, 7, end of block
ZFixed == <<120, 1, 99, 96, 7, 0, 0, 9, 0, 8>>

\* fixed-Huffman block: literals 0x00 0xFF 0x80, end of block
ZFixedHigh == <<120, 1, 99, 248, 223, 0, 0, 2, 129, 1, 128>>

\* stored 00 'A' 'B', then a fixed block with length 5, distance 2
ZOverlap == <<120, 1, 0, 3, 0, 252, 255, 0, 65, 66, 3, 67, 0, 7, 48, 1, 203>>

\* fixed block: literal 0, then length 3 with distance 2 (too far back)
ZFarDist == <<120, 1, 99, 0, 66, 0, 0, 4, 0, 1>>

\* fixed block holding literal/length symbol 286
ZSym286 == <<120, 1, 99, 96, 31, 3, 0, 0, 9, 0, 8>>

\* fixed block holding distance symbol 30
ZDist30 == <<120, 1, 99, 96, 7, 62, 0, 0, 75, 0, 29>>

\* dynamic block: literals 0 7 7 7 (code lengths through symbols 17, 18)
ZDyn == <<120, 1, 5, 192, 33, 1, 0, 0, 0, 128, 32, 27, 255, 31, 75, 24, 0,
          46, 0, 22>>

\* dynamic block: literals 0 1 2 3, length 3 distance 3 (uses symbol 16)
ZDyn16 == <<120, 1, 13, 195, 135, 9, 0, 0, 0, 2, 160, 230, 255, 47, 23, 40,
            40, 223, 0, 0, 45, 0, 13>>

\* dynamic block with HLIT = 30 (287 literal/length code lengths), HDIST = 0:
\* literals 0 7, end of block
ZDynHlit30 == <<120, 1, 245, 192, 33, 1, 0, 0, 0, 128, 32, 155, 255, 31, 51,
                165, 1, 0, 9, 0, 8>>

\* the same block with HLIT = 29 (286 code lengths)
ZDynHlit29 == <<120, 1, 237, 192, 33, 1, 0, 0, 0, 128, 32, 155, 255, 31, 243,
                164, 1, 0, 9, 0, 8>>

\* stream with its last byte (Adler-32) changed
BadAdler(z) == [z EXCEPT ![Len(z)] = (@ + 1) % 256]

\* two stored blocks: one byte each
ZTwoStored == <<120, 1, 0, 1, 0, 254, 255, 0, 1, 1, 0, 254, 255, 7>>
                  \o WBytes(png_adler32(<<0, 7>>))

\* BTYPE = 3
ZReserved == <<120, 1, 7, 0, 0, 0, 1>>

\* stored block whose NLEN is not ~LEN
ZBadNlen == <<120, 1, 1, 2, 0, 0, 0, 0, 7>> \o WBytes(png_adler32(<<0, 7>>))

\* FDICT set: four dictionary-id bytes follow the header (0x78 0x20 + 0x1b)
ZDict == <<120, 59, 9, 9, 9, 9, 1, 2, 0, 253, 255, 0, 7>>
             \o WBytes(png_adler32(<<0, 7>>))

ihdr_chunk(w, h, depth, ctype, comp, filt, lace) ==
    png_write_chunk(T_IHDR, BE32(w) \o BE32(h) \o <<depth, ctype, comp, filt, lace>>)

idat_chunk(z) == png_write_chunk(T_IDAT, z)

iend_chunk == png_write_chunk(T_IEND, << >>)

Z0 == stored_stream(<<0, 7>>)

H0 == ihdr_chunk(1, 1, 8, 0, 0, 0, 0)

Plain(h, z) == PNG_SIGNATURE \o h \o idat_chunk(z) \o iend_chunk

\* Files whose IHDR departs from 1 x 1, depth 8, gray.
HeaderFiles ==
    { Plain(ihdr_chunk(1, 1, v[1], v[2], v[3], v[4], v[5]), Z0) :
        v \in { <<8, 0, 0, 0, 0>>, <<16, 0, 0, 0, 0>>, <<1, 0, 0, 0, 0>>,
                <<8, 3, 0, 0, 0>>, <<8, 1, 0, 0, 0>>, <<8, 7, 0, 0, 0>>,
                <<8, 0, 1, 0, 0>>, <<8, 0, 0, 1, 0>>, <<8, 0, 0, 0, 1>> } }
    \cup
    { Plain(ihdr_chunk(d[1], d[2], 8, d[3], 0, 0, 0), d[4]) :
        d \in { <<0, 1, 0, Z0>>, <<1, 0, 0, Z0>>,
                <<-1, -1, 2, Z0>>, <<-1, -1, 0, stored_stream(<< >>)>>,
                <<INT_MIN, 2, 0, Z0>>, <<1073741824, 1, 6, stored_stream(<<0>>)>>,
                <<1073741825, 1, 6, stored_stream(<<0, 1, 2, 3, 4>>)>>,
                <<INT_MAX, 1, 0, Z0>>, <<1, INT_MAX, 0, Z0>>,
                <<65536, 65536, 0, Z0>>, <<16777216, 1, 0, Z0>>,
                <<2, 1, 0, Z0>>, <<1, 1, 2, Z0>> } }

\* Files whose zlib stream is of interest.
StreamFiles ==
    { Plain(ihdr_chunk(s[2], s[3], 8, s[4], 0, 0, 0), s[1]) :
        s \in { <<ZFixed, 1, 1, 0>>, <<ZFixedHigh, 2, 1, 0>>,
                <<ZOverlap, 7, 1, 0>>, <<ZFarDist, 3, 1, 0>>,
                <<ZSym286, 1, 1, 0>>, <<ZDist30, 4, 1, 0>>,
                <<ZDyn, 3, 1, 0>>, <<ZDyn16, 2, 1, 2>>,
                <<ZDynHlit30, 1, 1, 0>>, <<ZDynHlit29, 1, 1, 0>>,
                <<BadAdler(Z0), 1, 1, 0>>, <<ZTwoStored, 1, 1, 0>>,
                <<ZReserved, 1, 1, 0>>, <<ZBadNlen, 1, 1, 0>>,
                <<ZDict, 1, 1, 0>>, <<ZFixed, 2, 1, 0>>,
                <<SubSeq(ZDyn, 1, 9) \o <<0, 0, 0, 0>>, 3, 1, 0>>,
                <<<<120, 2>> \o SubSeq(Z0, 3, Len(Z0)), 1, 1, 0>>,
                <<<<119, 7>> \o SubSeq(Z0, 3, Len(Z0)), 1, 1, 0>>,
                <<<<120, 1, 0, 0, 0>>, 1, 1, 0>> } }

\* Two-row files, one per filter byte 0..5 on the second row (and on the
\* first), 2 pixels of 1 or 2 channels.
FilterFiles ==
    { Plain(ihdr_chunk(2, 2, 8, 0, 0, 0, 0),
            stored_stream(<<f[1], 7, 255, f[2], 200, 100>>)) :
        f \in { <<0, 1>>, <<0, 2>>, <<0, 3>>, <<0, 4>>, <<0, 5>>, <<1, 0>>,
                <<2, 3>>, <<3, 4>>, <<4, 1>>, <<5, 2>>, <<0, 255>> } }
    \cup
    { Plain(ihdr_chunk(2, 2, 8, 4, 0, 0, 0),
            stored_stream(<<f[1], 7, 255, 9, 3, f[2], 200, 100, 250, 6>>)) :
        f \in { <<1, 4>>, <<3, 2>>, <<4, 3>>, <<2, 1>>, <<6, 0>> } }

\* Two rows of two pixels for the filter grid, cut to the row length.
FilterRows ==
    { << <<7, 255, 9, 3, 200, 100, 250, 6>>, <<200, 100, 250, 6, 1, 128, 127, 255>> >>,
      << <<128, 128, 128, 128, 128, 128, 128, 128>>,
         <<128, 128, 128, 128, 128, 128, 128, 128>> >>,
      << <<255, 255, 255, 255, 1, 1, 1, 1>>, <<1, 0, 255, 254, 255, 1, 0, 2>> >> }

\* 2 x 2 files of every channel count with every pair of filter types 0..4
\* on their two rows.
FilterGrid ==
    { Plain(ihdr_chunk(2, 2, 8, png_color_type(g[1]), 0, 0, 0),
            stored_stream(<<g[2]>> \o SubSeq(g[4][1], 1, 2 * g[1])
                          \o <<g[3]>> \o SubSeq(g[4][2], 1, 2 * g[1]))) :
        g \in (1..4) \X (0..4) \X (0..4) \X FilterRows }

\* The byte values of the grey files below.
FilterBytes == {0, 1, 128, 255}

\* 2 x 2 grey files: an unfiltered first row and an Average or Paeth second
\* row, every byte of both rows over FilterBytes.
FilterGreyFiles ==
    { Plain(ihdr_chunk(2, 2, 8, 0, 0, 0, 0),
            stored_stream(<<0, g[2], g[3], g[1], g[4], g[5]>>)) :
        g \in {3, 4} \X FilterBytes \X FilterBytes \X FilterBytes \X FilterBytes }

text_chunk == png_write_text_chunk(<<65>>, <<116>>)

\* A chunk with its CRC field changed.
BadCrc(c) == [c EXCEPT ![Len(c)] = (@ + 1) % 256]

\* Files whose chunk sequence is of interest.
OrderFiles ==
    { PNG_SIGNATURE \o idat_chunk(Z0) \o H0 \o iend_chunk,
      PNG_SIGNATURE \o text_chunk \o H0 \o idat_chunk(Z0) \o iend_chunk,
      PNG_SIGNATURE \o H0 \o ihdr_chunk(2, 1, 8, 0, 0, 0, 0)
          \o idat_chunk(stored_stream(<<0, 7, 9>>)) \o iend_chunk,
      PNG_SIGNATURE \o H0 \o idat_chunk(Z0) \o ihdr_chunk(1, 1, 8, 2, 0, 0, 0)
          \o iend_chunk,
      PNG_SIGNATURE \o idat_chunk(Z0) \o iend_chunk,
      PNG_SIGNATURE \o H0 \o iend_chunk,
      PNG_SIGNATURE \o H0 \o iend_chunk \o idat_chunk(Z0),
      PNG_SIGNATURE \o H0 \o idat_chunk(Z0),
      PNG_SIGNATURE \o H0 \o text_chunk \o idat_chunk(Z0) \o iend_chunk,
      PNG_SIGNATURE \o H0 \o idat_chunk(Z0) \o iend_chunk \o text_chunk,
      PNG_SIGNATURE \o H0 \o idat_chunk(<< >>) \o iend_chunk,
      PNG_SIGNATURE \o H0 \o idat_chunk(<< >>) \o idat_chunk(<< >>) \o iend_chunk,
      PNG_SIGNATURE \o H0 \o idat_chunk(<< >>) \o idat_chunk(Z0) \o iend_chunk,
      PNG_SIGNATURE \o png_write_chunk(T_IHDR, <<0, 0, 0, 1, 0, 0, 0, 1, 8, 0, 0, 0>>)
          \o idat_chunk(Z0) \o iend_chunk,
      PNG_SIGNATURE \o BadCrc(H0) \o idat_chunk(Z0) \o iend_chunk,
      PNG_SIGNATURE \o H0 \o BadCrc(idat_chunk(Z0)) \o iend_chunk,
      PNG_SIGNATURE \o H0 \o idat_chunk(Z0) \o BadCrc(iend_chunk),
      PNG_SIGNATURE \o H0 \o BadCrc(text_chunk) \o idat_chunk(Z0) \o iend_chunk,
      PNG_SIGNATURE \o H0 \o idat_chunk(Z0)
          \o <<255, 255, 255, 255>> \o T_tEXt \o <<1, 2, 3, 4>>,
      PNG_SIGNATURE \o H0 \o idat_chunk(Z0)
          \o <<0, 0, 0, 9>> \o T_tEXt \o <<1, 2, 3, 4, 5, 6, 7, 8>>,
      PNG_SIGNATURE \o H0 \o <<0, 0, 0, 200>> \o T_IDAT \o Z0 }
    \cup
    { PNG_SIGNATURE \o H0 \o idat_chunk(SubSeq(Z0, 1, k))
          \o idat_chunk(SubSeq(Z0, k + 1, Len(Z0))) \o iend_chunk :
        k \in 1..(Len(Z0) - 1) }

\* The chunks between IHDR and IEND for the zlib stream z cut into IDAT
\* chunks: in two at every position (an empty IDAT first or last included),
\* in two with a tEXt chunk in between, in three with the first cut after
\* one or two bytes (an empty IDAT in the middle included).
idat_splits(z) ==
    { idat_chunk(SubSeq(z, 1, k)) \o idat_chunk(SubSeq(z, k + 1, Len(z))) :
        k \in 0..Len(z) }
    \cup
    { idat_chunk(SubSeq(z, 1, k)) \o text_chunk
          \o idat_chunk(SubSeq(z, k + 1, Len(z))) : k \in 1..(Len(z) - 1) }
    \cup
    UNION { { idat_chunk(SubSeq(z, 1, j)) \o idat_chunk(SubSeq(z, j + 1, k))
                 \o idat_chunk(SubSeq(z, k + 1, Len(z))) : k \in j..Len(z) } :
            j \in 1..2 }

\* Files with the stream of a 1 x 1 grey image in several IDAT chunks: a
\* stored stream, a fixed-Huffman stream, and a stream with a wrong Adler-32.
SplitFiles ==
    UNION { { PNG_SIGNATURE \o H0 \o c \o iend_chunk : c \in idat_splits(z) } :
            z \in {Z0, ZFixed, BadAdler(Z0)} }

CraftedFiles ==
    HeaderFiles \cup StreamFiles \cup FilterFiles \cup OrderFiles \cup SplitFiles
        \cup FilterGrid \cup FilterGreyFiles

\* A hand-made input file.
craft_file ==
    /\ pc = "input"
    /\ img = NULL
    /\ \E f \in CraftedFiles : file' = f
    /\ pc' = "ready"
    /\ UNCHANGED <<img, orig, chunk_vars, inflate_vars, row_vars, ret, oob,
                   ub, heap>>
    /\ UNCHANGED <<crc_vars, clone_vars, call_vars>>

MaxFuzzLen == 70

\* One mutation of a saved file, as the fuzzer's mutate() applies them:
\* MUT_ZERO_BYTE, MUT_FF_BYTE, MUT_FLIP_BYTE at any position, MUT_TRUNCATE
\* to any length.
mutate_file ==
    /\ pc = "ready"
    /\ orig # NULL
    /\ Len(file) <= MaxFuzzLen
    /\ \/ \E p \in 1..Len(file), v \in {0, 255} :
             /\ file[p] # v
             /\ file' = [file EXCEPT ![p] = v]
       \/ \E p \in 1..Len(file) : file' = [file EXCEPT ![p] = 255 - @]
       \/ \E n \in 0..(Len(file) - 1) : file' = SubSeq(file, 1, n)
    /\ orig' = NULL
    /\ pc' = "mutated"
    /\ UNCHANGED <<img, chunk_vars, inflate_vars, row_vars, ret, oob, ub, heap>>
    /\ UNCHANGED <<crc_vars, clone_vars, call_vars>>

Next ==
    \/ create_image
    \/ set_pixels
    \/ clone_image
    \/ png_save
    \/ png_save_with_text
    \/ craft_file
    \/ mutate_file
    \/ png_load_mem_enter
    \/ chunk_loop_end
    \/ chunk_overrun
    \/ chunk_IHDR
    \/ chunk_IDAT
    \/ chunk_IEND
    \/ chunk_skip
    \/ load_after_chunks
    \/ png_inflate_zlib_enter
    \/ inflate_block_fail
    \/ inflate_stored
    \/ inflate_huffman
    \/ inflate_literal
    \/ inflate_end_of_block
    \/ inflate_backref
    \/ inflate_symbol_fail
    \/ inflate_finish
    \/ load_create
    \/ load_row
    \/ load_return

Spec == Init /\ [][Next]_vars

(***************************************************************************)
(* The chunks of a file as the chunk loop walks them                       *)
(***************************************************************************)
\* Whether the chunk at offset p of f passes the loop's two length checks.
fits_at(f, p) ==
    /\ p + 8 <= Len(f)
    /\ ~WGreater(png_read_be32_mem(f, p), (Len(f) - (p + 8)) - 4)

type_at(f, p) == SubSeq(f, p + 5, p + 8)

\* The offsets at which the loop reads a chunk header, starting at p.
RECURSIVE chunks_from(_, _)
chunks_from(f, p) ==
    IF p + 8 > Len(f) THEN {}
    ELSE {p} \cup
         (IF \/ ~fits_at(f, p)
             \/ type_at(f, p) = T_IEND
             \/ (type_at(f, p) = T_IHDR /\ WVal(png_read_be32_mem(f, p)) < 13)
          THEN {}
          ELSE chunks_from(f, p + 8 + WVal(png_read_be32_mem(f, p)) + 4))

\* The chunks a call on `file` iterates over (none without the signature).
chunks_seen ==
    IF Len(file) < 8 \/ SubSeq(file, 1, 8) # PNG_SIGNATURE THEN {}
    ELSE chunks_from(file, 8)

\* The call has returned an image.
Accepted == pc = "done" /\ ret # NULL

(***************************************************************************)
(* Failing allocations and failing file operations.  FaultSpec adds to the *)
(* steps of Spec those in which malloc, calloc or realloc returns NULL for *)
(* a nonzero size, fopen returns NULL, or fwrite writes less than asked.   *)
(* pc = "save_failed": png_save or png_save_with_text returned -1.         *)
(***************************************************************************)
\* realloc(idat_data, idat_len + chunk_len) returns NULL; the memcpy that
\* follows writes chunk_len bytes at NULL + idat_len.  The old block stays
\* allocated and is no longer pointed to.
chunk_IDAT_nomem ==
    /\ pc = "chunks"
    /\ chunk_fits
    /\ chunk_type = T_IDAT
    /\ idat_len + WVal(chunk_len) > 0
    /\ ub' = TRUE
    /\ IF WVal(chunk_len) > 0
       THEN /\ oob' = TRUE
            /\ Crash
            /\ pos' = pos + 8
       ELSE /\ idat_data' = NULL
            /\ pos' = pos + 8 + 4
            /\ UNCHANGED <<pc, oob, out, raw, dec, ret, heap>>
    /\ UNCHANGED <<img, orig, file, width, height, color_type, expected_len,
                   bs, final, litlen, dist, y>>
    /\ UNCHANGED <<crc_vars, clone_vars, call_vars>>

\* malloc(expected_len) returns NULL: png_inflate_zlib returns NULL,
\* png_load_mem frees idat_data and returns NULL.
png_inflate_zlib_nomem ==
    /\ pc = "inflate"
    /\ zlib_header_ok(idat_data[1])
    /\ expected_len > 0
    /\ ReturnNull
    /\ heap' = free(heap, "idat_data")
    /\ UNCHANGED <<img, orig, file, pos, width, height, color_type,
                   expected_len, bs, final, litlen, dist, y, oob, ub>>
    /\ UNCHANGED <<crc_vars, clone_vars, call_vars>>

\* malloc or calloc in png_create returns NULL: png_load_mem frees raw and
\* returns NULL.
load_create_nomem ==
    /\ pc = "create"
    /\ ~create_overflows(width, height, channels)
    /\ create_size(width, height, channels) > 0
    /\ ReturnNull
    /\ heap' = free(heap, "out")
    /\ UNCHANGED <<img, orig, file, pos, width, height, color_type,
                   inflate_vars, y, oob, ub>>
    /\ UNCHANGED <<crc_vars, clone_vars, call_vars>>

\* The allocations of one png_save_internal call.
SaveAllocations == {"crc_data", "data", "raw", "out"}

\* Offset of the IDAT chunk in a file png_save_internal wrote.
idat_offset(f) == CHOOSE p \in chunks_from(f, 8) : type_at(f, p) = T_IDAT

\* One allocation of png_save_internal fails (keyword, text: pointers).
\*   crc_data (png_write_chunk): the chunk's length, type and data are
\*       written, then memcpy(crc_data, type, 4) writes at NULL;
\*   data (png_write_text_chunk): the function returns, no tEXt chunk is
\*       written, png_save_internal goes on and returns 0;
\*   raw: raw[y * row_bytes] = 0 writes at NULL;
\*   out (png_deflate_store): it returns NULL, png_save_internal frees raw
\*       and returns -1.
save_nomem(keyword, text, failed) ==
    LET full == png_save_internal(img[1], keyword, text)
    IN  CASE failed = "crc_data" ->
                 /\ \E p \in chunks_from(full, 8) :
                        file' = SubSeq(full, 1,
                                    p + 8 + WVal(png_read_be32_mem(full, p)))
                 /\ pc' = "crashed"
                 /\ oob' = TRUE
                 /\ ub' = TRUE
                 /\ UNCHANGED orig
          [] failed = "data" ->
                 /\ keyword # NULL
                 /\ text # NULL
                 /\ file' = png_save_internal(img[1], NULL, NULL)
                 /\ pc' = "ready"
                 /\ orig' = <<img[1], keyword, text>>
                 /\ UNCHANGED <<oob, ub>>
          [] failed = "raw" ->
                 /\ file' = SubSeq(full, 1, idat_offset(full))
                 /\ pc' = "crashed"
                 /\ oob' = TRUE
                 /\ ub' = TRUE
                 /\ UNCHANGED orig
          [] failed = "out" ->
                 /\ file' = SubSeq(full, 1, idat_offset(full))
                 /\ pc' = "save_failed"
                 /\ UNCHANGED <<orig, oob, ub>>

png_save_nomem ==
    /\ pc = "input"
    /\ img # NULL
    /\ Len(img[1].data) <= MaxPixelBytes
    /\ \E failed \in SaveAllocations :
          \/ save_nomem(NULL, NULL, failed)
          \/ \E keyword \in Keywords, text \in Texts :
                 save_nomem(<<keyword>>, <<text>>, failed)
    /\ UNCHANGED <<img, chunk_vars, inflate_vars, row_vars, ret, heap>>
    /\ UNCHANGED <<crc_vars, clone_vars, call_vars>>

\* if (!img || !path) return -1;
png_save_null_argument ==
    /\ pc = "input"
    /\ \E path \in {NULL, <<"out.png">>} : img = NULL \/ path = NULL
    /\ pc' = "save_failed"
    /\ UNCHANGED <<img, orig, file, chunk_vars, inflate_vars, row_vars, ret,
                   oob, ub, heap>>
    /\ UNCHANGED <<crc_vars, clone_vars, call_vars>>

\* FILE *f = fopen(path, "wb"); if (!f) return -1;
png_save_open_fails ==
    /\ pc = "input"
    /\ img # NULL
    /\ pc' = "save_failed"
    /\ UNCHANGED <<img, orig, file, chunk_vars, inflate_vars, row_vars, ret,
                   oob, ub, heap>>
    /\ UNCHANGED <<crc_vars, clone_vars, call_vars>>

\* One fwrite of png_save_internal or png_write_chunk writes fewer bytes
\* than asked and the stream stays in error: the file holds the first n
\* bytes.  No fwrite result is read; png_save_internal returns 0.
png_save_write_fails ==
    /\ pc = "input"
    /\ img # NULL
    /\ Len(img[1].data) <= MaxPixelBytes
    /\ \E full \in {png_save_internal(img[1], NULL, NULL)} :
          /\ Len(full) <= MaxFuzzLen
          /\ \E n \in 0..(Len(full) - 1) : file' = SubSeq(full, 1, n)
    /\ pc' = "ready"
    /\ UNCHANGED <<img, orig, chunk_vars, inflate_vars, row_vars, ret, oob,
                   ub, heap>>
    /\ UNCHANGED <<crc_vars, clone_vars, call_vars>>

NextFault ==
    \/ Next
    \/ chunk_IDAT_nomem
    \/ png_inflate_zlib_nomem
    \/ load_create_nomem
    \/ png_save_nomem
    \/ png_save_null_argument
    \/ png_save_open_fails
    \/ png_save_write_fails

FaultSpec == Init /\ [][NextFault]_vars

(***************************************************************************)
(* Threads calling png_crc at the same time.  png_crc_table and            *)
(* png_crc_table_computed are plain statics read and written without any   *)
(* synchronisation: a data race.  Each step below is one memory access of  *)
(* one thread; the store to the flag may take effect before the stores to  *)
(* the table that precede it in the program (make_flag_early).             *)
(***************************************************************************)
\* png_crc(buf, len) calls png_update_crc(0xffffffff, buf, len).
crc_call(t) ==
    /\ thread[t].pc = "idle"
    /\ thread' = [thread EXCEPT ![t].pc = "check"]
    /\ UNCHANGED <<crc_table, png_crc_table_computed, main_vars, clone_vars, call_vars>>

\* if (!png_crc_table_computed) png_make_crc_table();
crc_check(t) ==
    /\ thread[t].pc = "check"
    /\ thread' = [thread EXCEPT ![t].pc = IF png_crc_table_computed = 0
                                          THEN "make" ELSE "loop"]
    /\ UNCHANGED <<crc_table, png_crc_table_computed, main_vars, clone_vars, call_vars>>

\* png_crc_table[n] = c;
make_store(t) ==
    /\ thread[t].pc = "make"
    /\ thread[t].n < 256
    /\ crc_table' = [crc_table EXCEPT ![thread[t].n] = crc_table_entry(thread[t].n)]
    /\ thread' = [thread EXCEPT ![t].n = @ + 1]
    /\ UNCHANGED <<png_crc_table_computed, main_vars, clone_vars, call_vars>>

\* png_crc_table_computed = 1; after the loop.
make_flag(t) ==
    /\ thread[t].pc = "make"
    /\ thread[t].n = 256
    /\ png_crc_table_computed' = 1
    /\ thread' = [thread EXCEPT ![t].pc = "loop", ![t].flag_stored = TRUE]
    /\ UNCHANGED <<crc_table, main_vars, clone_vars, call_vars>>

\* The store png_crc_table_computed = 1 taking effect while table stores of
\* the same thread are still to come.
make_flag_early(t) ==
    /\ thread[t].pc = "make"
    /\ thread[t].n < 256
    /\ ~thread[t].flag_stored
    /\ png_crc_table_computed' = 1
    /\ thread' = [thread EXCEPT ![t].flag_stored = TRUE]
    /\ UNCHANGED <<crc_table, main_vars, clone_vars, call_vars>>

\* c = png_crc_table[(c ^ buf[n]) & 0xff] ^ (c >> 8);
crc_byte(t) ==
    /\ thread[t].pc = "loop"
    /\ thread[t].i < Len(CrcInput(t))
    /\ \E k \in {BitXor(thread[t].c[2] % 256, CrcInput(t)[thread[t].i + 1])} :
          thread' = [thread EXCEPT
                        ![t].c = WXor(crc_table[k], WShr8(thread[t].c)),
                        ![t].stale = @ \/ crc_table[k] # png_crc_table[k],
                        ![t].i = @ + 1]
    /\ UNCHANGED <<crc_table, png_crc_table_computed, main_vars, clone_vars, call_vars>>

\* return c; png_crc returns it ^ 0xffffffff.
crc_return(t) ==
    /\ thread[t].pc = "loop"
    /\ thread[t].i = Len(CrcInput(t))
    /\ thread' = [thread EXCEPT ![t].pc = "returned",
                                ![t].c = WXor(@, <<65535, 65535>>)]
    /\ UNCHANGED <<crc_table, png_crc_table_computed, main_vars, clone_vars, call_vars>>

CrcNext ==
    \E t \in Threads :
        \/ crc_call(t)
        \/ crc_check(t)
        \/ make_store(t)
        \/ make_flag(t)
        \/ make_flag_early(t)
        \/ crc_byte(t)
        \/ crc_return(t)

CrcSpec == Init /\ [][CrcNext]_vars

(***************************************************************************)
(* png_create, png_clone and png_free on a heap of addressed blocks: a     *)
(* png_image struct is a block holding width, height, channels and the     *)
(* address of its pixel buffer.                                            *)
(***************************************************************************)
\* png_create: malloc returns address s for the struct, calloc returns d
\* for the zeroed pixel buffer.
png_create_at(m, s, d, w, h, c) ==
    [m EXCEPT
        ![s] = [live |-> TRUE,
                image |-> << [width |-> w, height |-> h, channels |-> c,
                              data |-> d] >>,
                bytes |-> << >>],
        ![d] = [live |-> TRUE, image |-> << >>,
                bytes |-> [k \in 1..create_size(w, h, c) |-> 0]]]

\* A clone whose struct points to the pixel buffer of src.
clone_shared_at(m, src, s, d) ==
    [m EXCEPT ![s] = [live |-> TRUE, image |-> m[src].image, bytes |-> << >>]]

\* png_clone of the image at src: png_create, then memcpy of the pixels.
png_clone_at(m, src, s, d) ==
    LET i == m[src].image[1]
    IN  [png_create_at(m, s, d, i.width, i.height, i.channels)
            EXCEPT ![d].bytes = m[i.data].bytes]

\* png_free: free(img->data); free(img); nothing for NULL.
png_free_at(m, ptr) ==
    IF ptr = 0 THEN m
    ELSE [m EXCEPT ![m[ptr].image[1].data] = NoBlock, ![ptr] = NoBlock]

\* The addresses two allocations in a row can return: any address that is
\* not allocated for the first, the lowest other such address for the
\* second.
FreePairs(m) ==
    {sd \in Addrs \X Addrs :
        /\ ~m[sd[1]].live
        /\ ~m[sd[2]].live
        /\ sd[1] # sd[2]
        /\ \A a \in Addrs : (~m[a].live /\ a # sd[1]) => sd[2] <= a}

\* The caller creates its image.
caller_create ==
    /\ image_a = 0
    /\ image_b = -1
    /\ \A a \in Addrs : ~mem[a].live
    /\ \E sd \in FreePairs(mem), w \in 1..MaxWidth, h \in 1..MaxHeight, c \in 1..4 :
          /\ w * h * c <= MaxCloneBytes
          /\ mem' = png_create_at(mem, sd[1], sd[2], w, h, c)
          /\ image_a' = sd[1]
    /\ UNCHANGED <<image_b, main_vars, crc_vars, call_vars>>

\* image_b = png_clone(image_a);
caller_clone ==
    /\ image_b = -1
    /\ IF image_a = 0
       THEN image_b' = 0 /\ mem' = mem
       ELSE \E sd \in FreePairs(mem) :
               /\ mem' = png_clone_at(mem, image_a, sd[1], sd[2])
               /\ image_b' = sd[1]
    /\ UNCHANGED <<image_a, main_vars, crc_vars, call_vars>>

\* The caller writes one byte of ptr->data.
write_pixel(ptr) ==
    /\ ptr > 0
    /\ \E k \in 1..Len(mem[mem[ptr].image[1].data].bytes), v \in PixelValues :
          /\ mem[mem[ptr].image[1].data].bytes[k] # v
          /\ mem' = [mem EXCEPT ![mem[ptr].image[1].data].bytes[k] = v]
    /\ UNCHANGED <<image_a, image_b, main_vars, crc_vars, call_vars>>

\* png_free(image_a); the caller drops the pointer.
free_a ==
    /\ image_a > 0
    /\ mem' = png_free_at(mem, image_a)
    /\ image_a' = 0
    /\ UNCHANGED <<image_b, main_vars, crc_vars, call_vars>>

\* png_free(image_b), after the clone.
free_b ==
    /\ image_b > 0
    /\ mem' = png_free_at(mem, image_b)
    /\ image_b' = 0
    /\ UNCHANGED <<image_a, main_vars, crc_vars, call_vars>>

CloneNext ==
    \/ caller_create
    \/ caller_clone
    \/ write_pixel(image_a)
    \/ write_pixel(image_b)
    \/ free_a
    \/ free_b

CloneSpec == Init /\ [][CloneNext]_vars

(***************************************************************************)
(* A caller of png_huffman_build and png_huffman_decode                    *)
(***************************************************************************)
\* The code lengths the caller passes: unused, the short ones, the longest,
\* and one past PNG_MAXBITS.
LengthValues == {0, 1, 2, 3, PNG_MAXBITS, PNG_MAXBITS + 1}

\* The largest n it passes.
MaxSymbols == 4

LengthSets == UNION { [1..n -> LengthValues] : n \in 1..MaxSymbols }

\* The second input byte that carries the low bits of the 15-bit code k, the
\* last bit of the code in bit 6 of the byte.
tail_byte(k) ==
    ((k % 2) * 64) + (((k \div 2) % 2) * 32) + (((k \div 4) % 2) * 16)

\* The input bytes it decodes from: none, one or two bytes.  The low three
\* bits of the first byte take every value, and the second byte ends each
\* of the first MaxSymbols 15-bit codes.
DecodeInputs ==
    { << >> }
    \cup { <<x>> : x \in 0..7 \cup {255} }
    \cup { <<x, z>> : x \in 0..7 \cup {255},
                      z \in { tail_byte(k) : k \in 0..(MaxSymbols - 1) } \cup {255} }

\* png_huffman_build(&h, lengths, n)
huffman_build_call ==
    /\ arg = NoCall
    /\ \E ls \in LengthSets :
          /\ arg' = [fn |-> "png_huffman_build", lengths |-> ls]
          /\ res' = png_huffman_build(ls)
    /\ UNCHANGED <<main_vars, crc_vars, clone_vars>>

\* png_huffman_decode(&bs, &h, &symbol) on the table a successful build
\* left in h, bs a fresh stream over the input bytes.
huffman_decode_call ==
    /\ arg.fn = "png_huffman_build"
    /\ res.ok
    /\ \E d \in DecodeInputs :
          /\ arg' = [fn |-> "png_huffman_decode", lengths |-> arg.lengths,
                     data |-> d]
          /\ res' = png_huffman_decode(NoStream, d, res.h)
    /\ UNCHANGED <<main_vars, crc_vars, clone_vars>>

HuffNext == huffman_build_call \/ huffman_decode_call

HuffSpec == Init /\ [][HuffNext]_vars

(***************************************************************************)
(* png_load_mem on files whose stream holds one length/distance pair       *)
(***************************************************************************)
\* RFC 1951, 3.2.5: base value and number of extra bits of the length
\* symbols 257..285 and of the distance symbols 0..29.
RfcLength ==
    << <<3, 0>>, <<4, 0>>, <<5, 0>>, <<6, 0>>, <<7, 0>>, <<8, 0>>, <<9, 0>>,
       <<10, 0>>, <<11, 1>>, <<13, 1>>, <<15, 1>>, <<17, 1>>, <<19, 2>>,
       <<23, 2>>, <<27, 2>>, <<31, 2>>, <<35, 3>>, <<43, 3>>, <<51, 3>>,
       <<59, 3>>, <<67, 4>>, <<83, 4>>, <<99, 4>>, <<115, 4>>, <<131, 5>>,
       <<163, 5>>, <<195, 5>>, <<227, 5>>, <<258, 0>> >>

RfcDistance ==
    << <<1, 0>>, <<2, 0>>, <<3, 0>>, <<4, 0>>, <<5, 1>>, <<7, 1>>, <<9, 2>>,
       <<13, 2>>, <<17, 3>>, <<25, 3>>, <<33, 4>>, <<49, 4>>, <<65, 5>>,
       <<97, 5>>, <<129, 6>>, <<193, 6>>, <<257, 7>>, <<385, 7>>, <<513, 8>>,
       <<769, 8>>, <<1025, 9>>, <<1537, 9>>, <<2049, 10>>, <<3073, 10>>,
       <<4097, 11>>, <<6145, 11>>, <<8193, 12>>, <<12289, 12>>,
       <<16385, 13>>, <<24577, 13>> >>

\* n bits of v, the low bit first (extra bits) and the high bit first
\* (Huffman codes).
bits_lsb(v, n) == [k \in 1..n |-> (v \div (2 ^ (k - 1))) % 2]

bits_msb(v, n) == [k \in 1..n |-> (v \div (2 ^ (n - k))) % 2]

\* Bits packed into bytes, the first bit in the low bit of the first byte.
pack_bits(bits) ==
    LET bit(k) == IF k <= Len(bits) THEN bits[k] ELSE 0
    IN  [j \in 1..((Len(bits) + 7) \div 8) |->
            bit((8 * j) - 7) + (2 * bit((8 * j) - 6)) + (4 * bit((8 * j) - 5))
            + (8 * bit((8 * j) - 4)) + (16 * bit((8 * j) - 3))
            + (32 * bit((8 * j) - 2)) + (64 * bit((8 * j) - 1))
            + (128 * bit(8 * j))]

\* The fixed code of the literal/length symbols 256..287 (RFC 1951, 3.2.6).
fixed_code(s) ==
    IF s <= 279 THEN bits_msb(s - 256, 7) ELSE bits_msb(192 + (s - 280), 8)

\* The raw bytes before the pair: filter byte 0, then 'A', 'B', ...
Prefix(n) == [k \in 1..n |-> IF k = 1 THEN 0 ELSE ((k + 62) % 251) + 1]

\* A case: n raw bytes in a stored block, then a final fixed block with
\* length symbol 257 + ls and extra bits lx, distance symbol ds and extra
\* bits dx, and end of block; the IHDR declares width x 1 grey.
case_length(c) == RfcLength[c.ls + 1][1] + c.lx

case_distance(c) == RfcDistance[c.ds + 1][1] + c.dx

\* Every length symbol with its least and greatest extra bits at distance
\* 2, every distance symbol with its least and greatest extra bits and
\* exactly that many bytes before it; the output fits the image.
LengthCases ==
    { [n |-> 3, ls |-> ls, lx |-> lx, ds |-> 1, dx |-> 0,
       width |-> 2 + RfcLength[ls + 1][1] + lx] :
        ls \in 0..28, lx \in {0, 1, 3, 7, 15, 31} } 

DistanceCases ==
    { [n |-> RfcDistance[ds + 1][1] + dx, ls |-> 0, lx |-> 0, ds |-> ds,
       dx |-> dx, width |-> RfcDistance[ds + 1][1] + dx + 2] :
        ds \in 0..29, dx \in {0, 1, 3, 7, 15, 31, 63, 127, 255, 511, 1023,
                              2047, 4095, 8191} }

\* A distance one past the bytes written (4 after 3, 32768 after 32767), a
\* copy that ends one or two bytes past the image, and one that ends one
\* byte short of it.
EdgeCases ==
    { [n |-> 3, ls |-> 0, lx |-> 0, ds |-> 3, dx |-> 0, width |-> 5],
      [n |-> 32767, ls |-> 0, lx |-> 0, ds |-> 29, dx |-> 8191, width |-> 32769],
      [n |-> 3, ls |-> 2, lx |-> 0, ds |-> 1, dx |-> 0, width |-> 6],
      [n |-> 3, ls |-> 2, lx |-> 0, ds |-> 1, dx |-> 0, width |-> 5],
      [n |-> 3, ls |-> 2, lx |-> 0, ds |-> 1, dx |-> 0, width |-> 8] }

BackrefCases ==
    { c \in LengthCases : c.lx \in {0, (2 ^ RfcLength[c.ls + 1][2]) - 1} }
    \cup { c \in DistanceCases : c.dx \in {0, (2 ^ RfcDistance[c.ds + 1][2]) - 1} }
    \cup EdgeCases

\* The bytes the pair of a case stands for when it is valid.
case_output(c) ==
    [k \in 1..(c.n + case_length(c)) |->
        IF k <= c.n THEN Prefix(c.n)[k]
        ELSE Prefix(c.n)[(c.n - case_distance(c)) + 1
                         + ((k - c.n - 1) % case_distance(c))]]

case_valid(c) ==
    /\ case_distance(c) <= c.n
    /\ c.n + case_length(c) = 1 + c.width

backref_stream(c) ==
    <<120, 1, 0, c.n % 256, c.n \div 256, 255 - (c.n % 256),
      255 - (c.n \div 256)>>
    \o Prefix(c.n)
    \o pack_bits(<<1, 1, 0>> \o fixed_code(257 + c.ls)
                 \o bits_lsb(c.lx, RfcLength[c.ls + 1][2])
                 \o bits_msb(c.ds, 5)
                 \o bits_lsb(c.dx, RfcDistance[c.ds + 1][2])
                 \o fixed_code(256))
    \o WBytes(png_adler32(IF case_distance(c) <= c.n THEN case_output(c)
                          ELSE Prefix(c.n)))

backref_file(c) ==
    Plain(ihdr_chunk(c.width, 1, 8, 0, 0, 0, 0), backref_stream(c))

\* The caller builds the file of a case for png_load_mem and keeps the case.
craft_backref_file ==
    /\ pc = "input"
    /\ img = NULL
    /\ arg = NoCall
    /\ \E c \in BackrefCases :
          /\ file' = backref_file(c)
          /\ arg' = [fn |-> "png_load_mem", case |-> c]
    /\ pc' = "ready"
    /\ UNCHANGED <<img, orig, chunk_vars, inflate_vars, row_vars, ret, oob,
                   ub, heap, res>>
    /\ UNCHANGED <<crc_vars, clone_vars>>

\* The steps png_load_mem takes on these files.
BackrefNext ==
    \/ craft_backref_file
    \/ png_load_mem_enter
    \/ chunk_IHDR
    \/ chunk_IDAT
    \/ chunk_IEND
    \/ load_after_chunks
    \/ png_inflate_zlib_enter
    \/ inflate_stored
    \/ inflate_huffman
    \/ inflate_end_of_block
    \/ inflate_backref
    \/ inflate_symbol_fail
    \/ inflate_finish
    \/ load_create
    \/ load_row
    \/ load_return

BackrefSpec == Init /\ [][BackrefNext]_vars

(***************************************************************************)
(* A caller of png_deflate_store                                           *)
(***************************************************************************)
\* The longest payload whose bytes are enumerated, and their values.
MaxStoreLen == 4

StoreBytes == {0, 1, 255}

\* Payload lengths of one, two and three blocks: a full block, one byte
\* more, and one byte more than two full blocks.
BlockEdgeLens == {max_block, max_block + 1, (2 * max_block) + 1}

\* The payloads the caller passes: every short one over StoreBytes, and
\* one of each length around the block size.
ShortPayloads == UNION { [1..n -> StoreBytes] : n \in 1..MaxStoreLen }

BlockPayloads == { [k \in 1..n |-> (k * 7) % 256] : n \in BlockEdgeLens }

\* png_deflate_store(data, len, &out_len) with len >= 1; malloc succeeds.
deflate_store_call(payloads) ==
    /\ arg = NoCall
    /\ \E data \in payloads :
          /\ arg' = [fn |-> "png_deflate_store", data |-> data]
          /\ res' = [out |-> png_deflate_store(data)]
    /\ UNCHANGED <<main_vars, crc_vars, clone_vars>>

StoreNext ==
    \/ deflate_store_call(ShortPayloads)
    \/ deflate_store_call(BlockPayloads)

StoreSpec == Init /\ [][StoreNext]_vars

(***************************************************************************)
(* Canonical Huffman codes                                                 *)
(***************************************************************************)
\* The canonical code of a code-length set (RFC 1951, 3.2.2): the first code
\* of each length, lengths taken shortest first.
RECURSIVE next_code(_, _)
next_code(ls, len) ==
    IF len <= 1 THEN 0
    ELSE 2 * (next_code(ls, len - 1)
              + Cardinality({k \in 1..Len(ls) : ls[k] = len - 1}))

\* The code of the symbol at index s: codes of one length go up by one in
\* symbol order.
canonical_code(ls, s) ==
    next_code(ls, ls[s]) + Cardinality({k \in 1..(s - 1) : ls[k] = ls[s]})

(***************************************************************************)
(* A caller of png_build_dynamic_huffman                                   *)
(***************************************************************************)
\* The block headers the caller writes are made of HLIT, HDIST, HCLEN = 15,
\* the 19 lengths of one complete code-length code (4 bits for the symbols
\* 0..12, 5 bits for 13..18) and a list of instructions <<symbol, extra>>:
\* a code-length symbol and the value of its extra bits.
CodeLengthCode == [s \in 1..19 |-> IF s <= 13 THEN 4 ELSE 5]

\* RFC 1951, 3.2.7: the order in which the code-length code lengths are sent.
RfcOrder == <<16, 17, 18, 0, 8, 7, 9, 6, 10, 5, 11, 4, 12, 3, 13, 2, 14, 1, 15>>

\* The number of extra bits after a code-length symbol.
extra_bits(s) == IF s = 16 THEN 2 ELSE IF s = 17 THEN 3 ELSE IF s = 18 THEN 7 ELSE 0

instr_bits(i) ==
    bits_msb(canonical_code(CodeLengthCode, i[1] + 1), CodeLengthCode[i[1] + 1])
    \o bits_lsb(i[2], extra_bits(i[1]))

RECURSIVE instrs_bits(_, _)
instrs_bits(instrs, k) ==
    IF k > Len(instrs) THEN << >>
    ELSE instr_bits(instrs[k]) \o instrs_bits(instrs, k + 1)

RECURSIVE order_bits(_)
order_bits(k) ==
    IF k > 19 THEN << >>
    ELSE bits_lsb(CodeLengthCode[RfcOrder[k] + 1], 3) \o order_bits(k + 1)

\* The header as bytes; the bits left in the last byte are 1s, which start
\* the code of symbol 18 and end before its extra bits do.
dynamic_header(hlit, hdist, instrs) ==
    LET bits == bits_lsb(hlit, 5) \o bits_lsb(hdist, 5) \o bits_lsb(15, 4)
                \o order_bits(1) \o instrs_bits(instrs, 1)
    IN  pack_bits(bits \o [k \in 1..((8 - (Len(bits) % 8)) % 8) |-> 1])

\* The entries an instruction stands for.
instr_count(i) ==
    IF i[1] <= 15 THEN 1
    ELSE IF i[1] = 18 THEN 11 + i[2] ELSE 3 + i[2]

RECURSIVE instrs_count(_, _)
instrs_count(instrs, k) ==
    IF k > Len(instrs) THEN 0
    ELSE instr_count(instrs[k]) + instrs_count(instrs, k + 1)

\* Instructions for r zero lengths: runs of symbol 18, then one of symbol
\* 17 or single zeros.
RECURSIVE zero_fill(_)
zero_fill(r) ==
    IF r <= 0 THEN << >>
    ELSE IF r <= 2 THEN <<<<0, 0>>>> \o zero_fill(r - 1)
    ELSE IF r <= 10 THEN <<<<17, r - 3>>>>
    ELSE IF r <= 138 THEN <<<<18, r - 11>>>>
    ELSE IF r <= 148 THEN <<<<18, r - 22>>>> \o zero_fill(11)
    ELSE <<<<18, 127>>>> \o zero_fill(r - 138)

\* The instructions the caller varies: lengths, and each repeat symbol
\* with its least and greatest count.
LeadInstrs ==
    { <<0, 0>>, <<1, 0>>, <<8, 0>>, <<15, 0>>, <<16, 0>>, <<16, 3>>,
      <<17, 0>>, <<17, 7>>, <<18, 0>>, <<18, 64>>, <<18, 127>> }

\* The most of them in a row.
MaxLead == 2

Leads ==
    UNION { [1..n -> LeadInstrs] : n \in 0..MaxLead }
    \cup { << <<s, 0>> >> : s \in 0..15 }

\* HLIT and HDIST of the headers.
DynCounts == { <<0, 0>>, <<1, 3>>, <<29, 29>> }

\* The instruction lists: nothing or zeros up to five entries before the
\* end, then a lead, then zeros for what is left, one entry more, or one
\* entry less.
dyn_instrs(total, early, lead, delta) ==
    LET head == (IF early THEN << >> ELSE zero_fill(total - 5)) \o lead
    IN  head \o zero_fill((total - instrs_count(head, 1)) + delta)

\* png_build_dynamic_huffman(&bs, &litlen, &dist), bs a fresh stream over
\* the header bytes.
dynamic_huffman_call ==
    /\ arg = NoCall
    /\ \E hd \in DynCounts, early \in BOOLEAN, lead \in Leads, delta \in {-1, 0, 1} :
          LET instrs == dyn_instrs(hd[1] + 257 + hd[2] + 1, early, lead, delta)
          IN  /\ arg' = [fn |-> "png_build_dynamic_huffman", hlit |-> hd[1],
                         hdist |-> hd[2], instrs |-> instrs]
              /\ res' = png_build_dynamic_huffman(
                            NoStream, dynamic_header(hd[1], hd[2], instrs))
    /\ UNCHANGED <<main_vars, crc_vars, clone_vars>>

DynSpec == Init /\ [][dynamic_huffman_call]_vars

(***************************************************************************)
(* Properties                                                              *)
(***************************************************************************)
\* C1: a file png_save wrote for an image of positive size decodes without
\* a fault, and when png_load_mem has returned, it returned an image with the
\* saved image's width, height, channels and pixel bytes.
C1_RoundTrip ==
    orig # NULL =>
        /\ pc # "crashed"
        /\ ~oob
        /\ ~ub
        /\ (pc = "done" => (ret # NULL /\ ret[1] = orig[1]))

\* C1 witness: a two-row image with nonzero pixel bytes has been saved and
\* decoded to the same pixels.
C1_RoundTripDecoded ==
    /\ pc = "done"
    /\ orig # NULL
    /\ ret # NULL
    /\ orig[1].height = 2
    /\ Len(orig[1].data) = 4
    /\ orig[1].data[1] # 0
    /\ ret[1].data = orig[1].data

\* C2: no access of png_load_mem leaves its allocation, and the inflate
\* output position stays within 0 .. expected_len.
C2_NoOutOfBounds ==
    /\ ~oob
    /\ (pc \in {"block", "symbol", "trailer"} => out_pos <= expected_len)

\* C3 (progress of the chunk loop): every turn of the chunk loop that
\* stays in the loop strictly advances pos.
ChunkLoopAdvances ==
    (pc = "chunks" /\ pc' = "chunks") => pos' > pos

\* C3 (progress of inflate): every block head and every decoded symbol that
\* does not fail consumes at least one bit of the payload.
InflateConsumes ==
    (pc \in {"block", "symbol"} /\ pc' \in {"block", "symbol", "trailer"})
        => BitsConsumed(bs') > BitsConsumed(bs)

\* C3 (bound): the consumed bit count lies within 0 .. 8 * deflate_len.
BitsBounded ==
    pc \in {"block", "symbol", "trailer"} =>
        /\ BitsConsumed(bs) >= 0
        /\ BitsConsumed(bs) <= 8 * Len(payload)

\* The call is running.
InCall == pc \in {"chunks", "post", "inflate", "block", "symbol", "trailer",
                  "create", "rows"}

\* The stages of a call in the order the code goes through them, counted
\* down to the return.
Stage(p) ==
    CASE p = "chunks"             -> 7
      [] p = "post"               -> 6
      [] p = "inflate"            -> 5
      [] p \in {"block", "symbol"} -> 4
      [] p = "trailer"            -> 3
      [] p = "create"             -> 2
      [] p = "rows"               -> 1
      [] OTHER                    -> 0

\* What the loop of stage p still has before it: input bytes for the chunk
\* loop, payload bits for inflate, rows for the row loop.
Remaining(p, at, stream, row) ==
    CASE p = "chunks"             -> Len(file) - at
      [] p \in {"block", "symbol"} -> (8 * Len(payload)) - BitsConsumed(stream)
      [] p = "rows"               -> height - row
      [] OTHER                    -> 0

\* C3 (every loop is bounded): a step of a running call moves to a later
\* stage, or stays in its loop with strictly less remaining and never
\* less than nothing.
CallProgresses ==
    InCall =>
        \/ Stage(pc') < Stage(pc)
        \/ /\ Stage(pc') = Stage(pc)
           /\ Remaining(pc', pos', bs', y') < Remaining(pc, pos, bs, y)
           /\ Remaining(pc', pos', bs', y') >= 0

\* C3: the chunk loop advances pos, inflate consumes bits of the bounded
\* payload on every block and symbol, and every step of a call brings its
\* return nearer in a well-founded order, so that no call on a finite input
\* runs forever.
C3_DecodeTerminates ==
    /\ [][ChunkLoopAdvances /\ InflateConsumes /\ CallProgresses]_vars
    /\ []BitsBounded

\* C3 witness: a call that went through a Huffman block with a
\* back-reference has returned an image.
C3_HuffmanCallReturned ==
    /\ pc = "done"
    /\ ret # NULL
    /\ litlen # EmptyHuffman
    /\ BitsConsumed(bs) > 24

\* C4: a call that iterated over a chunk whose stored CRC-32 differs from
\* the CRC-32 of its type and payload returns NULL.
crc_bad_at(f, p) ==
    /\ fits_at(f, p)
    /\ png_read_be32_mem(f, p + 8 + WVal(png_read_be32_mem(f, p)))
           # png_crc(SubSeq(f, p + 5, p + 8 + WVal(png_read_be32_mem(f, p))))

C4_CrcMismatchFails ==
    Accepted => \A p \in chunks_seen : ~crc_bad_at(file, p)

\* C5: a call that met a chunk whose declared length plus CRC runs past the
\* end of the input returns NULL.
C5_TruncatedChunkFails ==
    Accepted => \A p \in chunks_seen : fits_at(file, p)

\* The offsets of the IHDR chunks the call read its fields from.
ihdr_seen ==
    {p \in chunks_seen : /\ fits_at(file, p)
                         /\ type_at(file, p) = T_IHDR
                         /\ WVal(png_read_be32_mem(file, p)) >= 13}

\* C6: a call returns an image only if the IHDR declares bit depth 8,
\* compression method 0, filter method 0 and interlace method 0.
C6_IhdrFieldsChecked ==
    Accepted => \A p \in ihdr_seen :
                    /\ file[p + 17] = 8
                    /\ file[p + 19] = 0
                    /\ file[p + 20] = 0
                    /\ file[p + 21] = 0

\* The IHDR's width and height as unsigned fields give products that `int`
\* holds exactly.
DimensionsExact ==
    /\ width >= 0
    /\ height >= 0
    /\ ~raw_len_overflows(width, height, channels)
    /\ ~create_overflows(width, height, channels)

\* C7: the inflate output and the image buffer are allocated, and rows
\* indexed, only for dimensions whose products do not overflow.
C7_DimensionsChecked ==
    (pc \in {"block", "symbol", "trailer", "create", "rows"} \/ Accepted)
        => DimensionsExact

\* The image invariant of one image.
ImageOk(i) ==
    /\ i.width >= 1
    /\ i.height >= 1
    /\ i.channels \in 1..4
    /\ Len(i.data) % i.width = 0
    /\ (Len(i.data) \div i.width) % i.height = 0
    /\ (Len(i.data) \div i.width) \div i.height = i.channels

\* C8: every image png_create, png_clone or png_load_mem returned has
\* width >= 1, height >= 1, channels in 1..4 and exactly
\* width * height * channels bytes.
C8_ImageInvariant ==
    /\ (img # NULL => ImageOk(img[1]))
    /\ (pc = "rows" => ImageOk(dec[1]))
    /\ (Accepted => ImageOk(ret[1]))

\* C9: a call whose decompressed data has a row that starts with a filter
\* byte above 4 does not go on to return an image: no row the row loop has
\* passed has such a byte.
C9_UnknownFilterFails ==
    pc = "rows" =>
        \A r \in 0..(y - 1) : raw[1][MulWrap(r, row_bytes) + 1] <= 4

\* C10: a call returns an image only if IHDR is the first chunk after the
\* signature and occurs exactly once.
C10_IhdrFirstAndOnce ==
    Accepted =>
        /\ 8 \in chunks_seen
        /\ type_at(file, 8) = T_IHDR
        /\ \A p \in chunks_seen : type_at(file, p) = T_IHDR => p = 8

\* The offsets of the IDAT chunks the call appended to the accumulator.
idat_seen ==
    {p \in chunks_seen : fits_at(file, p) /\ type_at(file, p) = T_IDAT}

\* An IHDR with nonzero width and nonzero height is among those read.
ihdr_nonzero_seen ==
    \E p \in ihdr_seen : /\ png_read_be32_mem(file, p + 8) # <<0, 0>>
                          /\ png_read_be32_mem(file, p + 12) # <<0, 0>>

StructurallyBad ==
    \/ Len(file) < 8
    \/ SubSeq(file, 1, 8) # <<137, 80, 78, 71, 13, 10, 26, 10>>
    \/ ~ihdr_nonzero_seen
    \/ idat_seen = {}

\* C11: a call on an input shorter than 8 bytes, with a wrong signature,
\* with no IHDR of nonzero width and height read, or with no IDAT chunk
\* read, never enters png_inflate_zlib and returns NULL.
C11_StructuralRejection ==
    (pc \notin {"input", "ready", "mutated", "save_failed"} /\ StructurallyBad) =>
        /\ pc \in {"chunks", "post", "done"}
        /\ (pc = "done" => ret = NULL)
        /\ out = NULL

\* C11 witness: a call on a file with the signature and an IHDR of nonzero
\* size but no IDAT chunk has returned NULL.
C11_NoIdatRejected ==
    /\ pc = "done"
    /\ ret = NULL
    /\ Len(file) >= 8
    /\ SubSeq(file, 1, 8) = PNG_SIGNATURE
    /\ ihdr_nonzero_seen
    /\ idat_seen = {}

\* C12: a step in which an allocation fails ends the operation with its
\* failure indicator (NULL from png_load_mem, -1 from png_save), with no
\* access through the failed allocation.
C12_AllocationFailureClean ==
    [][(\/ chunk_IDAT_nomem
        \/ png_inflate_zlib_nomem
        \/ load_create_nomem
        \/ png_save_nomem)
       => /\ ~oob'
          /\ ~ub'
          /\ \/ (pc' = "done" /\ ret' = NULL)
             \/ pc' = "save_failed"]_vars

\* The complete byte sequences png_save and png_save_with_text write for i.
CompleteFiles(i) ==
    {png_save_internal(i, NULL, NULL)}
    \cup {png_save_internal(i, <<keyword>>, <<text>>) :
              keyword \in Keywords, text \in Texts}

\* C13: png_save and png_save_with_text return nonzero when img or path is
\* NULL or the file cannot be opened, and return 0 only if the complete PNG
\* byte sequence has been written.
C13_EncodeErrorSignalled ==
    [][/\ (png_save_null_argument \/ png_save_open_fails)
          => pc' = "save_failed"
       /\ (pc = "input" /\ img # NULL /\ pc' = "ready")
          => file' \in CompleteFiles(img[1])]_vars

\* C14: with allocations succeeding, no block of a png_load_mem call is
\* released twice; when the call has returned, the IDAT accumulator and the
\* inflate output are released if they were allocated, and an image is
\* allocated exactly when one was returned; the accumulator is released
\* before the image is created and the rows are unfiltered.
C14_DecodeReleases ==
    /\ \A block \in {"idat_data", "out", "img"} : heap[block] # "twice"
    /\ pc \in {"create", "rows"} => heap.idat_data = "freed"
    /\ pc = "done" =>
          /\ heap.idat_data \in {"none", "freed"}
          /\ heap.out \in {"none", "freed"}
          /\ heap.img = (IF ret = NULL THEN "none" ELSE "live")

\* C14 witness: a call has returned NULL after it had allocated both the
\* accumulator and the inflate output.
C14_FailedAfterInflate ==
    /\ pc = "done"
    /\ ret = NULL
    /\ heap.idat_data = "freed"
    /\ heap.out = "freed"

\* The chunk at offset p of f lies within f, has the given type, and its CRC
\* field is the CRC-32 of its type and payload.
chunk_ok(f, p, type) ==
    /\ fits_at(f, p)
    /\ type_at(f, p) = type
    /\ ~crc_bad_at(f, p)

payload_at(f, p) == SubSeq(f, p + 9, p + 8 + WVal(png_read_be32_mem(f, p)))

\* The offset just after the chunk at p.
chunk_end(f, p) == p + 8 + WVal(png_read_be32_mem(f, p)) + 4

\* f is: signature, IHDR (13 bytes), tEXt (payload given) iff has_text,
\* one IDAT, IEND (empty), and nothing else.
save_layout(f, has_text, text_payload) ==
    LET p_idat == IF has_text THEN chunk_end(f, 33) ELSE 33
        p_iend == chunk_end(f, p_idat)
    IN  /\ Len(f) >= 8
        /\ SubSeq(f, 1, 8) = <<137, 80, 78, 71, 13, 10, 26, 10>>
        /\ chunk_ok(f, 8, <<73, 72, 68, 82>>)
        /\ Len(payload_at(f, 8)) = 13
        /\ has_text => /\ chunk_ok(f, 33, <<116, 69, 88, 116>>)
                       /\ payload_at(f, 33) = text_payload
        /\ chunk_ok(f, p_idat, <<73, 68, 65, 84>>)
        /\ chunk_ok(f, p_iend, <<73, 69, 78, 68>>)
        /\ payload_at(f, p_iend) = << >>
        /\ chunk_end(f, p_iend) = Len(f)

\* C15: the bytes png_save / png_save_with_text wrote are the signature, one
\* IHDR chunk of 13 payload bytes, a tEXt chunk (keyword, NUL, text) iff
\* keyword and text were both given, one IDAT chunk and one empty IEND
\* chunk, each with its payload length and the CRC-32 of type and payload.
C15_EncoderChunkOrder ==
    (pc = "ready" /\ orig # NULL) =>
        save_layout(file, orig[2] # NULL /\ orig[3] # NULL,
                    IF orig[2] # NULL /\ orig[3] # NULL
                    THEN orig[2][1] \o <<0>> \o orig[3][1] ELSE << >>)

\* C15 witness: png_save_with_text has written a file with a tEXt chunk.
C15_TextChunkWritten ==
    /\ pc = "ready"
    /\ orig # NULL
    /\ orig[2] # NULL
    /\ orig[3] # NULL
    /\ type_at(file, 33) = T_tEXt

\* C15 witness: png_save_with_text has written a file without a tEXt chunk
\* for a keyword given without a text.
C15_KeywordOnly ==
    /\ pc = "ready"
    /\ orig # NULL
    /\ orig[2] # NULL
    /\ orig[3] = NULL
    /\ type_at(file, 33) = T_IDAT

\* C16: with threads making their first png_crc call at the same time, no
\* thread reads a table entry that does not hold its final value, and every
\* call returns the CRC-32 of its input.
C16_ConcurrentFirstUse ==
    \A t \in Threads :
        /\ ~thread[t].stale
        /\ thread[t].pc = "returned" => thread[t].c = png_crc(CrcInput(t))

\* The channel count of each colour type (0 grey, 2 RGB, 4 grey + alpha,
\* 6 RGBA); 0 stands for "decode fails".
ChannelsOfType(ct) ==
    CASE ct = 0 -> 1 [] ct = 2 -> 3 [] ct = 4 -> 2 [] ct = 6 -> 4 [] OTHER -> 0

TypeOfChannels(c) == CASE c = 1 -> 0 [] c = 2 -> 4 [] c = 3 -> 2 [] c = 4 -> 6

\* C17: decode maps colour type 0, 2, 4, 6 to 1, 3, 2, 4 channels and fails
\* for every other colour type; encode writes colour type 0, 4, 2, 6 for
\* 1, 2, 3, 4 channels; decode's mapping of encode's output is the identity.
C17_ColorTypeMapping ==
    /\ \A ct \in 0..255 : color_channels(ct) = ChannelsOfType(ct)
    /\ \A c \in 1..4 : /\ png_color_type(c) = TypeOfChannels(c)
                        /\ color_channels(png_color_type(c)) = c
    /\ (pc = "ready" /\ orig # NULL) =>
          file[26] = TypeOfChannels(orig[1].channels)
    /\ pc \in {"inflate", "block", "symbol", "trailer", "create", "rows"} =>
          ChannelsOfType(color_type) # 0
    /\ pc = "rows" => dec[1].channels = ChannelsOfType(color_type)
    /\ Accepted => /\ ChannelsOfType(color_type) # 0
                   /\ ret[1].channels = ChannelsOfType(color_type)

\* C17 witness: a file with colour type 4 that png_save wrote for a
\* two-channel image has been decoded to a two-channel image.
C17_GreyAlphaDecoded ==
    /\ Accepted
    /\ orig # NULL
    /\ orig[1].channels = 2
    /\ color_type = 4
    /\ ret[1].channels = 2

\* C17 witness: a call on a file with the palette colour type 3 has
\* returned NULL.
C17_PaletteRejected ==
    /\ pc = "done"
    /\ ret = NULL
    /\ color_type = 3
    /\ width # 0
    /\ height # 0
    /\ idat_seen # {}

\* The payloads of the IDAT chunks the loop reads from offset p of f on,
\* one after the other.
RECURSIVE idat_concat_from(_, _)
idat_concat_from(f, p) ==
    IF p + 8 > Len(f) \/ ~fits_at(f, p) \/ type_at(f, p) = <<73, 69, 78, 68>>
       \/ (type_at(f, p) = <<73, 72, 68, 82>> /\ Len(payload_at(f, p)) < 13)
    THEN << >>
    ELSE (IF type_at(f, p) = <<73, 68, 65, 84>> THEN payload_at(f, p) ELSE << >>)
         \o idat_concat_from(f, chunk_end(f, p))

idat_concat == idat_concat_from(file, 8)

\* What png_load_mem returns for a 1 x 1 grey file with the single IDAT z.
SingleIdatResult(z) ==
    IF z = BadAdler(Z0) THEN NULL
    ELSE << [width |-> 1, height |-> 1, channels |-> 1, data |-> <<7>>] >>

\* C18: what the chunk loop hands to inflate is the concatenation of the
\* IDAT payloads in file order, however they are cut into chunks; a file
\* with a 1 x 1 grey header whose IDAT payloads concatenate to a given zlib
\* stream decodes to the result of that stream in a single IDAT.
C18_IdatBoundariesIrrelevant ==
    /\ pc \in {"post", "inflate", "block", "symbol", "trailer"} =>
          /\ idat_len = Len(idat_concat)
          /\ idat_data # NULL => idat_data[1] = idat_concat
    /\ \A z \in {Z0, ZFixed, BadAdler(Z0)} :
          (/\ pc = "done"
           /\ Len(file) >= 8
           /\ SubSeq(file, 1, 8) = PNG_SIGNATURE
           /\ ihdr_seen = {8}
           /\ file[8 + 8 + 10] = 0
           /\ png_read_be32_mem(file, 8 + 8) = <<0, 1>>
           /\ png_read_be32_mem(file, 8 + 12) = <<0, 1>>
           /\ idat_concat = z)
          => ret = SingleIdatResult(z)

\* C18 witness: a file whose stream is cut into three IDAT chunks, the
\* middle one empty, has been decoded to an image.
C18_ThreeIdatDecoded ==
    /\ Accepted
    /\ Cardinality(idat_seen) = 3
    /\ \E p \in idat_seen : payload_at(file, p) = << >>
    /\ idat_concat = Z0

\* The image at ptr in m as a value: its fields and its pixel bytes.
image_value(m, ptr) ==
    [width |-> m[ptr].image[1].width, height |-> m[ptr].image[1].height,
     channels |-> m[ptr].image[1].channels,
     data |-> m[m[ptr].image[1].data].bytes]

\* The image at ptr is allocated, and so is its pixel buffer.
image_live(m, ptr) ==
    /\ ptr > 0
    /\ m[ptr].live
    /\ m[ptr].image # << >>
    /\ m[m[ptr].image[1].data].live

\* The png_clone call: NULL for NULL; otherwise a new struct and a new
\* pixel buffer with the fields and bytes of the original, which is left as
\* it was.
CloneCopies ==
    (image_b = -1 /\ image_b' # -1) =>
        IF image_a = 0 THEN image_b' = 0 /\ mem' = mem
        ELSE /\ image_b' > 0
             /\ image_b' # image_a
             /\ ~mem[image_b'].live
             /\ image_live(mem', image_b')
             /\ mem'[image_b'].image[1].data # mem[image_a].image[1].data
             /\ ~mem[mem'[image_b'].image[1].data].live
             /\ image_value(mem', image_b') = image_value(mem, image_a)
             /\ image_a' = image_a
             /\ image_live(mem', image_a)
             /\ image_value(mem', image_a) = image_value(mem, image_a)

\* A step that writes to or releases one of the two images leaves the other
\* allocated and with the same fields and pixels.
CloneIndependent ==
    (image_live(mem, image_a) /\ image_live(mem, image_b)) =>
        /\ (image_a' = 0 \/ image_value(mem', image_a) # image_value(mem, image_a))
              => /\ image_b' = image_b
                 /\ image_live(mem', image_b)
                 /\ image_value(mem', image_b) = image_value(mem, image_b)
        /\ (image_b' = 0 \/ image_value(mem', image_b) # image_value(mem, image_b))
              => /\ image_a' = image_a
                 /\ image_live(mem', image_a)
                 /\ image_value(mem', image_a) = image_value(mem, image_a)

\* C19: png_clone(NULL) is NULL; png_clone of an image returns a new image
\* with equal width, height, channels and pixels in a distinct allocation
\* and leaves the original unchanged; a later write to or release of either
\* image does not affect the other.
C19_CloneDeepCopy == [][CloneCopies /\ CloneIndependent]_vars

\* C19 witness: after the clone, a pixel of the clone was written and the
\* original released; the clone is allocated and holds the written pixel.
C19_CloneOutlivesOriginal ==
    /\ image_a = 0
    /\ image_live(mem, image_b)
    /\ \E k \in 1..Len(image_value(mem, image_b).data) :
          image_value(mem, image_b).data[k] = 255

\* png_inflate_zlib has just returned a buffer: the input (the IDAT
\* payloads of the file, one after the other) has at least 6 bytes, the low
\* nibble of CMF is 8, CMF * 256 + FLG is a multiple of 31, the last block
\* read had BFINAL = 1, expected_len bytes were written and their Adler-32
\* is the big-endian value in the last four input bytes.
InflateReturnedBuffer ==
    pc = "create" =>
        /\ Len(idat_concat) >= 6
        /\ idat_concat[1] % 16 = 8
        /\ ((idat_concat[1] * 256) + idat_concat[2]) % 31 = 0
        /\ final = 1
        /\ raw # NULL
        /\ Len(raw[1]) = expected_len
        /\ png_adler32(raw[1])
              = << (idat_concat[Len(idat_concat) - 3] * 256)
                      + idat_concat[Len(idat_concat) - 2],
                   (idat_concat[Len(idat_concat) - 1] * 256)
                      + idat_concat[Len(idat_concat)] >>

\* A step that leaves png_inflate_zlib goes on to png_create with the buffer
\* or ends the call with NULL and the output buffer released; a block with
\* BTYPE = 3 and a bit underrun at a block header end it with NULL.
InflateFailsClean ==
    /\ pc \in {"inflate", "block", "symbol", "trailer"} =>
          \/ pc' \in {"block", "symbol", "trailer", "create"}
          \/ /\ pc' = "done"
             /\ ret' = NULL
             /\ raw' = NULL
             /\ heap'.out \in {"none", "freed"}
    /\ (pc = "block" /\ (~block_header.ok \/ block_header.btype = 3)) =>
          (pc' = "done" /\ ret' = NULL)

RECURSIVE kraft_from(_, _)
kraft_from(ls, k) ==
    IF k > Len(ls) THEN 0
    ELSE (IF ls[k] = 0 \/ ls[k] > 15 THEN 0 ELSE 2 ^ (15 - ls[k]))
         + kraft_from(ls, k + 1)

TooLong(ls) == \E k \in 1..Len(ls) : ls[k] > 15

OverSubscribed(ls) == ~TooLong(ls) /\ kraft_from(ls, 1) > 2 ^ 15

Incomplete(ls) == ~TooLong(ls) /\ kraft_from(ls, 1) < 2 ^ 15

\* One used symbol, of code length 1.
OneSymbolCode(ls) ==
    /\ Cardinality({k \in 1..Len(ls) : ls[k] # 0}) = 1
    /\ \E k \in 1..Len(ls) : ls[k] = 1

\* C21: png_huffman_build fails on a set with a length above 15 and on an
\* over-subscribed set, and it fails on every incomplete set except the one
\* with a single used symbol of length 1; every other set it accepts.
C21_HuffmanCompleteness ==
    arg.fn = "png_huffman_build" =>
        LET ls == arg.lengths
        IN  /\ TooLong(ls) \/ OverSubscribed(ls) => ~res.ok
            /\ Incomplete(ls) /\ ~OneSymbolCode(ls) => ~res.ok
            /\ ~TooLong(ls) /\ ~OverSubscribed(ls)
                   /\ (~Incomplete(ls) \/ OneSymbolCode(ls)) => res.ok

\* Bit k (from 1) of the input as the bit reader hands bits out: the low
\* bit of each byte first.
stream_bit(d, k) == (d[((k - 1) \div 8) + 1] \div (2 ^ ((k - 1) % 8))) % 2

\* The input starts with the code of the symbol at index s, its most
\* significant bit first.
starts_with_code(d, ls, s) ==
    /\ ls[s] # 0
    /\ 8 * Len(d) >= ls[s]
    /\ \A k \in 1..ls[s] :
          stream_bit(d, k) = (canonical_code(ls, s) \div (2 ^ (ls[s] - k))) % 2

\* C23: on a table png_huffman_build accepted, png_huffman_decode fed the
\* canonical code of a symbol returns that symbol after reading exactly as
\* many bits as the code is long; fed bits that start with no code (none
\* within 15 bits, or the input ends first) it fails.  Every symbol's code
\* is among the inputs the caller decodes.
C23_HuffmanDecode ==
    /\ arg.fn = "png_huffman_build" /\ res.ok =>
          \A s \in 1..Len(arg.lengths) :
             arg.lengths[s] # 0 =>
                \E d \in DecodeInputs : starts_with_code(d, arg.lengths, s)
    /\ arg.fn = "png_huffman_decode" =>
          /\ \A s \in 1..Len(arg.lengths) :
                starts_with_code(arg.data, arg.lengths, s) =>
                   /\ res.ok
                   /\ res.v = s - 1
                   /\ BitsConsumed(res.bs) = arg.lengths[s]
          /\ (\A s \in 1..Len(arg.lengths) :
                ~starts_with_code(arg.data, arg.lengths, s)) => ~res.ok

\* A 15-bit code was decoded: the second symbol of lengths 15, 15.
C23_LongCodeDecoded ==
    /\ arg.fn = "png_huffman_decode"
    /\ arg.lengths = <<15, 15>>
    /\ arg.data = <<0, 64>>
    /\ res.ok
    /\ res.v = 1

\* No code within 15 bits: lengths 1, 2 and sixteen 1 bits.
C23_NoCodeFails ==
    /\ arg.fn = "png_huffman_decode"
    /\ arg.lengths = <<1, 2>>
    /\ arg.data = <<255, 255>>
    /\ ~res.ok
    /\ BitsConsumed(res.bs) = 15

\* A step that enters the symbol loop of a dynamic block read HLIT and HDIST
\* with HLIT + 257 in 257..286 and HDIST + 1 in 1..32.
DynamicCountsInRange ==
    (pc = "block" /\ pc' = "symbol" /\ block_header.btype = 2) =>
        LET g1 == png_bitstream_get(block_header.bs, payload, 5)
            g2 == png_bitstream_get(g1.bs, payload, 5)
        IN  /\ g1.v + 257 \in 257..286
            /\ g2.v + 1 \in 1..32

\* The distance symbol that follows the length symbol s and its extra bits.
distance_symbol(s) ==
    png_huffman_decode(
        png_bitstream_get(s.bs, payload, len_extra[(s.v - 257) + 1]).bs,
        payload, dist)

\* The symbol loop is at a reserved value: literal/length symbol 286 or
\* 287, or a length symbol followed by distance symbol 30 or 31.
AtReservedSymbol ==
    /\ pc = "symbol"
    /\ sym.ok
    /\ \/ sym.v \in {286, 287}
       \/ /\ sym.v \in 257..285
          /\ png_bitstream_get(sym.bs, payload,
                               len_extra[(sym.v - 257) + 1]).ok
          /\ distance_symbol(sym).ok
          /\ distance_symbol(sym).v \in {30, 31}

\* C22: a dynamic block is decoded only with 257..286 literal/length codes
\* and 1..32 distance codes, and a decoded literal/length symbol 286 or 287
\* or distance symbol 30 or 31 makes the decode fail.
C22_ReservedValuesRejected ==
    [][/\ DynamicCountsInRange
       /\ AtReservedSymbol => (pc' = "done" /\ ret' = NULL)]_vars

\* The reserved symbols alone: they make the decode fail.
C22_ReservedSymbolsFail ==
    [][AtReservedSymbol => (pc' = "done" /\ ret' = NULL)]_vars

\* The predictor of filter type f from the bytes a (left), b (above) and
\* c (above left).
predictor(f, a, b, c) ==
    LET p  == (a + b) - c
        pa == IF p >= a THEN p - a ELSE a - p
        pb == IF p >= b THEN p - b ELSE b - p
        pc_ == IF p >= c THEN p - c ELSE c - p
    IN  CASE f = 0 -> 0
          [] f = 1 -> a
          [] f = 2 -> b
          [] f = 3 -> (a + b) \div 2
          [] f = 4 -> IF pa <= pb /\ pa <= pc_ THEN a
                      ELSE IF pb <= pc_ THEN b ELSE c

\* The reconstruction of a filtered row, byte by byte from the left on top
\* of the bytes acc reconstructed so far; prior is the row above.
\* None and Up do not look left: each byte is reconstructed on its own.
RECURSIVE reconstruct(_, _, _, _, _)
reconstruct(acc, filtered, prior, f, bpp) ==
    IF Len(acc) = Len(filtered) THEN acc
    ELSE IF f \in {0, 2}
    THEN [k \in 1..Len(filtered) |->
             (filtered[k] + predictor(f, 0, prior[k], 0)) % 256]
    ELSE LET k == Len(acc) + 1
             a == IF k > bpp THEN acc[k - bpp] ELSE 0
             b == prior[k]
             c == IF k > bpp THEN prior[k - bpp] ELSE 0
         IN  reconstruct(Append(acc, (filtered[k] + predictor(f, a, b, c)) % 256),
                         filtered, prior, f, bpp)

\* A turn of the row loop that went through, in a call whose sizes did not
\* overflow, on a row of filter type 0..4.
RowTurn ==
    /\ pc = "rows"
    /\ pc' = "rows"
    /\ y' = y + 1
    /\ ~ub'
    /\ raw[1][(y * (1 + (width * channels))) + 1] \in 0..4

\* C24: each turn of the row loop leaves in row y of the image the
\* reconstruction of raw row y by its filter type (None, Sub, Up, Average,
\* Paeth with ties resolved a, b, c; sums modulo 256) with bpp = channels,
\* the row above being row y-1 of the image, or all zero for row 0.
C24_RowReconstruction ==
    [][RowTurn =>
         LET n == width * channels
             filtered == SubSeq(raw[1], (y * (1 + n)) + 2, (y + 1) * (1 + n))
             prior == IF y = 0 THEN [k \in 1..n |-> 0]
                      ELSE SubSeq(dec[1].data, ((y - 1) * n) + 1, y * n)
         IN  SubSeq(dec'[1].data, (y * n) + 1, (y + 1) * n)
                = reconstruct(<< >>, filtered, prior,
                              raw[1][(y * (1 + n)) + 1], channels)]_vars

\* Both rows of a 2 x 2 RGB file were reconstructed, the first by Average
\* and the second by Paeth.
C24_PaethRowDecoded ==
    /\ pc = "rows"
    /\ y = 2
    /\ height = 2
    /\ width = 2
    /\ channels = 3
    /\ raw[1][1] = 3
    /\ raw[1][8] = 4
    /\ dec[1].data # [k \in 1..12 |-> 128]

\* The length/distance pair the stream holds after the length symbol s:
\* [ok, length, distance]; not ok when the stream ends inside the pair or
\* the distance symbol is not one of 0..29.
pair_read(s) ==
    LET ex == png_bitstream_get(s.bs, payload, len_extra[(s.v - 257) + 1])
        ds == distance_symbol(s)
        dx == png_bitstream_get(ds.bs, payload, dist_extra[ds.v + 1])
    IN  IF ex.ok /\ ds.ok /\ ds.v \in 0..29 /\ dx.ok
        THEN [ok |-> TRUE,
              length |-> len_base[(s.v - 257) + 1] + ex.v,
              distance |-> dist_base[ds.v + 1] + dx.v]
        ELSE [ok |-> FALSE, length |-> 0, distance |-> 0]

\* The symbol loop is at a length/distance pair.
AtPair ==
    /\ pc = "symbol"
    /\ sym.ok
    /\ sym.v \in 257..285
    /\ pair_read(sym).ok

\* The step taken at a pair: the copy, or the failure of the decode.
BackrefStep ==
    AtPair =>
        LET length == pair_read(sym).length
            distance == pair_read(sym).distance
        IN  /\ length \in 3..258
            /\ distance \in 1..32768
            /\ IF distance <= out_pos /\ out_pos + length <= expected_len
               THEN /\ pc' = "symbol"
                    /\ Len(out') = out_pos + length
                    /\ SubSeq(out', 1, out_pos) = out
                    /\ \A k \in (out_pos + 1)..(out_pos + length) :
                          out'[k] = out'[k - distance]
               ELSE /\ pc' = "done"
                    /\ ret' = NULL
                    /\ heap'.out = "freed"

\* The pair read from the file of a case is the pair RFC 1951 gives for its
\* symbols and extra bits.
CasePairRead ==
    (arg.fn = "png_load_mem" /\ pc = "symbol" /\ out = Prefix(arg.case.n)) =>
        /\ AtPair
        /\ pair_read(sym).length = case_length(arg.case)
        /\ pair_read(sym).distance = case_distance(arg.case)

\* The call returns the bytes the pair stands for, or NULL when the pair
\* reaches back too far or the output does not have the image's size.
CaseOutcome ==
    (arg.fn = "png_load_mem" /\ pc = "done") =>
        IF case_valid(arg.case)
        THEN /\ ret # NULL
             /\ ret[1].data = Tail(case_output(arg.case))
        ELSE ret = NULL

\* C25: a pair with 1 <= distance <= out_pos and out_pos + length <=
\* expected_len appends length bytes, each equal to the byte distance
\* positions before it (so the last distance bytes repeat when length >
\* distance); any other pair fails the decode; every decoded length is in
\* 3..258 and every decoded distance in 1..32768.
C25_BackReference ==
    /\ [](CasePairRead /\ CaseOutcome)
    /\ [][BackrefStep]_vars

\* 'A' 'B' followed by length 5, distance 2 has become ABABABA (after the
\* filter byte).
C25_RunRepeated ==
    /\ pc = "symbol"
    /\ out = <<0, 65, 66, 65, 66, 65, 66, 65>>

\* A pair reaching back 32768 bytes after 32767 bytes of output has failed
\* the decode.
C25_TooFarBackFailed ==
    /\ pc = "done"
    /\ ret = NULL
    /\ width = 32769

\* The stored blocks found in z from offset p on, following their LEN
\* fields: [hdr, len, nlen, at] each, at = offset of the block's data.
\* A block that does not fit ends the list with len = -1.
RECURSIVE stored_blocks_at(_, _)
stored_blocks_at(z, p) ==
    IF p + 5 > Len(z) - 4 THEN << >>
    ELSE LET len == z[p + 2] + (256 * z[p + 3])
             b   == [hdr |-> z[p + 1], len |-> len,
                     nlen |-> z[p + 4] + (256 * z[p + 5]), at |-> p + 5]
         IN  IF p + 5 + len > Len(z) - 4 THEN << [b EXCEPT !.len = -1] >>
             ELSE <<b>> \o stored_blocks_at(z, p + 5 + len)

\* Adler-32 by its definition: a = 1 + the sum of the bytes, b = the sum of
\* the values a takes, both modulo 65521.  The two sums over data[lo..hi]:
\* <<sum of the bytes, sum of each byte times the bytes from it to hi>>.
RECURSIVE adler_sums(_, _, _)
adler_sums(data, lo, hi) ==
    IF lo > hi THEN <<0, 0>>
    ELSE IF lo = hi THEN <<data[lo] % 65521, data[lo] % 65521>>
    ELSE LET mid == (lo + hi) \div 2
             l == adler_sums(data, lo, mid)
             r == adler_sums(data, mid + 1, hi)
         IN  <<(l[1] + r[1]) % 65521,
               (l[2] + ((l[1] * ((hi - mid) % 65521)) % 65521) + r[2]) % 65521>>

adler_bytes(data) ==
    LET s == adler_sums(data, 1, Len(data))
        a == (1 + s[1]) % 65521
        b == ((Len(data) % 65521) + s[2]) % 65521
    IN  <<b \div 256, b % 256, a \div 256, a % 256>>

\* C26: for a payload of len >= 1 bytes png_deflate_store writes 0x78 0x01,
\* then ceil(len / 65535) stored blocks of 1..65535 bytes each (header byte
\* with BTYPE 00 and BFINAL set on the last block only, LEN and its
\* complement little-endian) whose data concatenated is the payload, then
\* the big-endian Adler-32 of the payload: 2 + 5 * blocks + len + 4 bytes.
C26_StoreOutput ==
    arg.fn = "png_deflate_store" =>
        LET data   == arg.data
            z      == res.out
            len    == Len(data)
            blocks == (len + 65534) \div 65535
            bl     == stored_blocks_at(z, 2)
        IN  /\ Len(z) = 2 + (5 * blocks) + len + 4
            /\ z[1] = 120
            /\ z[2] = 1
            /\ Len(bl) = blocks
            /\ \A j \in 1..Len(bl) :
                  /\ bl[j].len \in 1..65535
                  /\ bl[j].hdr % 2 = (IF j = Len(bl) THEN 1 ELSE 0)
                  /\ (bl[j].hdr \div 2) % 4 = 0
                  /\ bl[j].nlen = 65535 - bl[j].len
                  /\ SubSeq(z, bl[j].at + 1, bl[j].at + bl[j].len)
                        = SubSeq(data, (bl[j].at - 1) - (5 * j),
                                 (bl[j].at - 2) - (5 * j) + bl[j].len)
            /\ bl[Len(bl)].at + bl[Len(bl)].len = Len(z) - 4
            /\ SubSeq(z, Len(z) - 3, Len(z)) = adler_bytes(data)

\* A payload one byte longer than a block was written as two blocks.
C26_TwoBlocksWritten ==
    /\ arg.fn = "png_deflate_store"
    /\ Len(arg.data) = 65536
    /\ res.out[3] = 0
    /\ res.out[65543] = 1
    /\ Len(res.out) = 65552

\* The lengths a list of instructions stands for in an array of `total`
\* entries, from instruction k on with the lengths acc before it:
\* [ok, lengths, used], used = the instructions read.
RECURSIVE expand(_, _, _, _)
expand(instrs, k, acc, total) ==
    IF Len(acc) >= total THEN [ok |-> TRUE, lengths |-> acc, used |-> k - 1]
    ELSE IF k > Len(instrs) THEN [ok |-> FALSE, lengths |-> acc, used |-> k - 1]
    ELSE LET s == instrs[k][1]
             x == instrs[k][2]
             fail == [ok |-> FALSE, lengths |-> acc, used |-> k]
             run(v, count) ==
                 IF Len(acc) + count > total THEN fail
                 ELSE expand(instrs, k + 1, acc \o [j \in 1..count |-> v], total)
         IN  IF s <= 15 THEN expand(instrs, k + 1, Append(acc, s), total)
             ELSE IF s = 16
             THEN IF Len(acc) = 0 THEN fail ELSE run(acc[Len(acc)], 3 + x)
             ELSE IF s = 17 THEN run(0, 3 + x)
             ELSE run(0, 11 + x)

\* C27: png_build_dynamic_huffman fills HLIT+257 + HDIST+1 code lengths:
\* symbols 0..15 store that length, 16 repeats the previous length 3..6
\* times and fails at the first entry, 17 stores 3..10 zeros, 18 stores
\* 11..138 zeros, and a repeat past the last entry fails.  On success all
\* entries were filled, the first HLIT+257 make the literal/length code and
\* the rest the distance code, and no instruction after the last entry was
\* read.
C27_DynamicCodeLengths ==
    arg.fn = "png_build_dynamic_huffman" =>
        LET nlen  == arg.hlit + 257
            total == nlen + arg.hdist + 1
            e     == expand(arg.instrs, 1, << >>, total)
            l     == png_huffman_build(SubSeq(e.lengths, 1, nlen))
            ds    == png_huffman_build(SubSeq(e.lengths, nlen + 1, total))
        IN  IF e.ok /\ l.ok /\ ds.ok
            THEN /\ res.ok
                 /\ Len(e.lengths) = total
                 /\ res.litlen = l.h
                 /\ res.dist = ds.h
                 /\ BitsConsumed(res.bs)
                       = 14 + 57 + Len(instrs_bits(SubSeq(arg.instrs, 1, e.used), 1))
            ELSE ~res.ok

\* A header whose lengths start with 8 and a run of symbol 16 was read.
C27_RepeatRead ==
    /\ arg.fn = "png_build_dynamic_huffman"
    /\ arg.hdist = 3
    /\ arg.instrs[1] = <<8, 0>>
    /\ arg.instrs[2] = <<16, 3>>
    /\ res.ok
    /\ res.litlen.count[8] = 7

\* Symbol 16 as the first instruction has failed the call.
C27_RepeatFirstFails ==
    /\ arg.fn = "png_build_dynamic_huffman"
    /\ arg.instrs[1] = <<16, 0>>
    /\ ~res.ok

====
